---- MODULE Spec2Model ----
(***************************************************************************)
(* Model of the bulk-import pipeline of SportCardTracker:                  *)
(*   POST /api/import       (column-mapped CSV/Excel import)               *)
(*   POST /api/import/text  (free-text line import)                        *)
(* in src/server/routes.ts (the later of the two registerRoutes bodies the *)
(* file holds, lines 386-1021), together with the first body's column-map  *)
(* handling where the two differ.                                          *)
(*                                                                         *)
(* JavaScript strings are TLA+ strings; TLC evaluates Len, \o, Head, Tail  *)
(* and SubSeq on them, so the string functions of the handlers are         *)
(* computed character by character.                                        *)
(***************************************************************************)
EXTENDS Integers, Sequences, FiniteSets, TLC

\* ------------------------------------------------------------------------
\* Bounds of the model
\* ------------------------------------------------------------------------
MaxRows == 2        \* rows of an uploaded file / lines of a text blob
MaxImports == 2     \* times the client submits its request

\* new Date().getFullYear(): the calendar year of the run
CurrentYear == 2026

\* ------------------------------------------------------------------------
\* Characters and JavaScript string functions
\* ------------------------------------------------------------------------
UpperChars == "ABCDEFGHIJKLMNOPQRSTUVWXYZ"
LowerChars == "abcdefghijklmnopqrstuvwxyz"
DigitChars == "0123456789"
WhiteSpace == {" ", "\t", "\n", "\r"}

CharAt(s, i) == SubSeq(s, i, i)

\* the least member of a set of positions, 0 when the set is empty: where a
\* search from the left first succeeds
Least(S) == IF S = {} THEN 0 ELSE CHOOSE p \in S : \A q \in S : p <= q

\* position of the one-character string c in s, 0 when absent
IndexOfChar(s, c) == Least({i \in 1..Len(s) : CharAt(s, i) = c})

UpperSet == {CharAt(UpperChars, i) : i \in 1..Len(UpperChars)}
LowerSet == {CharAt(LowerChars, i) : i \in 1..Len(LowerChars)}
DigitSet == {CharAt(DigitChars, i) : i \in 1..Len(DigitChars)}

IsUpper(c) == c \in UpperSet
IsLower(c) == c \in LowerSet
IsDigit(c) == c \in DigitSet
IsAlpha(c) == IsUpper(c) \/ IsLower(c)
\* \w of a regular expression
IsWord(c) == IsAlpha(c) \/ IsDigit(c) \/ c = "_"

\* the lower-case letter of each upper-case letter
LowerOf == [c \in UpperSet |-> CharAt(LowerChars, IndexOfChar(UpperChars, c))]

LowerChar(c) == IF IsUpper(c) THEN LowerOf[c] ELSE c

RECURSIVE ToLowerCase(_)
\* String.prototype.toLowerCase
ToLowerCase(s) == IF s = "" THEN "" ELSE LowerChar(Head(s)) \o ToLowerCase(Tail(s))

RECURSIVE TrimStart(_)
TrimStart(s) == IF s = "" THEN ""
                ELSE IF Head(s) \in WhiteSpace THEN TrimStart(Tail(s)) ELSE s

RECURSIVE TrimEnd(_)
TrimEnd(s) == IF s = "" THEN ""
              ELSE IF CharAt(s, Len(s)) \in WhiteSpace
                   THEN TrimEnd(SubSeq(s, 1, Len(s) - 1)) ELSE s

\* String.prototype.trim
Trim(s) == TrimEnd(TrimStart(s))

\* does sub occur in s starting at position i
MatchAt(s, i, sub) == /\ i >= 1
                      /\ i + Len(sub) - 1 <= Len(s)
                      /\ SubSeq(s, i, i + Len(sub) - 1) = sub

\* String.prototype.includes
Includes(s, sub) == \E i \in 1..(Len(s) + 1) : MatchAt(s, i, sub)

RECURSIVE Split(_, _)
\* String.prototype.split on a one-character separator
Split(s, sep) ==
  LET k == IndexOfChar(s, sep)
  IN IF k = 0 THEN <<s>>
     ELSE <<SubSeq(s, 1, k - 1)>> \o Split(SubSeq(s, k + 1, Len(s)), sep)

RECURSIVE SelectNonEmpty(_)
\* Array.prototype.filter(url => url.length > 0)
SelectNonEmpty(q) == IF q = <<>> THEN <<>>
                     ELSE IF Len(Head(q)) > 0 THEN <<Head(q)>> \o SelectNonEmpty(Tail(q))
                          ELSE SelectNonEmpty(Tail(q))

\* the value of each decimal digit
DigitValue == [c \in DigitSet |-> IndexOfChar(DigitChars, c) - 1]
DigitVal(c) == DigitValue[c]

RECURSIVE ParseDigits(_)
\* parseInt of a string of decimal digits
ParseDigits(s) == IF s = "" THEN 0
                  ELSE ParseDigits(SubSeq(s, 1, Len(s) - 1)) * 10 + DigitVal(CharAt(s, Len(s)))

RECURSIVE NumToString(_)
\* Number.prototype.toString of a non-negative integer
NumToString(n) == IF n < 10 THEN CharAt(DigitChars, n + 1)
                  ELSE NumToString(n \div 10) \o CharAt(DigitChars, (n % 10) + 1)

\* ------------------------------------------------------------------------
\* Cell values of a RawRow and fields of a candidate: a JavaScript value
\* that is undefined, null, a string or a number
\* ------------------------------------------------------------------------
Undef == [t |-> "undef", s |-> "", n |-> 0]
Null == [t |-> "null", s |-> "", n |-> 0]
Str(x) == [t |-> "str", s |-> x, n |-> 0]
Num(x) == [t |-> "num", s |-> "", n |-> x]

\* JavaScript truthiness of a value
Truthy(v) == \/ v.t = "str" /\ v.s # ""
             \/ v.t = "num" /\ v.n # 0

\* a || b
OrElse(a, b) == IF Truthy(a) THEN a ELSE b

\* value.toString()
ToStringOf(v) == IF v.t = "num" THEN NumToString(v.n) ELSE v.s

\* value.trim() and value.toLowerCase() exist on strings only: on a number
\* the call raises TypeError
CallThrows(v) == v.t # "str"

\* the column names the handlers read, and those the client's mapping names
Columns == {"Player Name", "Card Name", "Sport", "Team", "Brand", "Card Set",
            "Card Number", "Condition", "Features", "Season",
            "IMAGE URL", "Image URL", "Front Image URL", "Back Image URL",
            "Front Image", "Back Image",
            "playerName", "sport", "condition", "purchasePrice", "currentValue"}

\* a RawRow: the listed cells, every other column undefined
Row(r) == [c \in Columns |-> IF c \in DOMAIN r THEN r[c] ELSE Undef]

\* ------------------------------------------------------------------------
\* Player name pattern of the row mapper:
\*   /(?:.*?)((?:[A-Z][a-z]+ )+[A-Z][a-z]+)/
\* ------------------------------------------------------------------------
RECURSIVE LowerRunEnd(_, _)
\* first position at or after p that holds no lower-case letter
LowerRunEnd(s, p) == IF p <= Len(s) /\ IsLower(CharAt(s, p))
                     THEN LowerRunEnd(s, p + 1) ELSE p

\* [A-Z][a-z]+ at p: the position after the word, 0 when there is none
WordEnd(s, p) == IF /\ p + 1 <= Len(s)
                    /\ IsUpper(CharAt(s, p))
                    /\ IsLower(CharAt(s, p + 1))
                 THEN LowerRunEnd(s, p + 1) ELSE 0

RECURSIVE ChainEnd(_, _)
\* the longest run of capitalized words separated by one space that starts
\* at p: the position after it, 0 when no word starts at p
ChainEnd(s, p) ==
  LET e == WordEnd(s, p)
  IN IF e = 0 THEN 0
     ELSE IF e <= Len(s) /\ CharAt(s, e) = " " /\ ChainEnd(s, e + 1) # 0
          THEN ChainEnd(s, e + 1)
          ELSE e

\* group 1 at p needs at least two words
NameEndAt(s, p) ==
  LET e == WordEnd(s, p)
  IN IF e # 0 /\ e <= Len(s) /\ CharAt(s, e) = " " THEN ChainEnd(s, e + 1) ELSE 0

\* cardName.match(...)[1], "" when the pattern does not match
NameMatch(s) ==
  LET ends == [p \in 1..Len(s) |-> NameEndAt(s, p)]
      p == Least({q \in 1..Len(s) : ends[q] # 0})
  IN IF p # 0 THEN SubSeq(s, p, ends[p] - 1) ELSE ""

\* ------------------------------------------------------------------------
\* POST /api/import: pre-filter and row mapper
\* ------------------------------------------------------------------------
\* records.filter(...): the rows kept for mapping
KeepsRow(record) ==
  \/ Truthy(OrElse(record["Player Name"], record["Card Name"]))
  \/ record["IMAGE URL"] # Undef /\ record["Card Number"] # Undef

RECURSIVE FilterRecords(_)
FilterRecords(records) ==
  IF records = <<>> THEN <<>>
  ELSE IF KeepsRow(Head(records))
       THEN <<Head(records)>> \o FilterRecords(Tail(records))
       ELSE FilterRecords(Tail(records))

\* the calls of the mapper that raise TypeError on a cell that is a number
MapperThrows(record) ==
  LET pn == record["Player Name"]
      cn == record["Card Name"]
      pnUsed == Truthy(pn) /\ ~CallThrows(pn) /\ Trim(pn.s) # ""
  IN \/ Truthy(pn) /\ CallThrows(pn)
     \/ ~pnUsed /\ Truthy(cn) /\ CallThrows(cn)
     \/ Truthy(record["Sport"]) /\ CallThrows(record["Sport"])
     \/ Truthy(record["Condition"]) /\ CallThrows(record["Condition"])

\* player name resolution
MapPlayerName(record) ==
  LET pn == record["Player Name"]
      cn == record["Card Name"]
  IN IF Truthy(pn) /\ Trim(pn.s) # "" THEN Trim(pn.s)
     ELSE IF Truthy(cn) /\ Trim(cn.s) # ""
          THEN LET cardName == Trim(ToStringOf(cn))
                   m == NameMatch(cardName)
               IN IF m # "" THEN Trim(m) ELSE cardName
          ELSE "Unknown Player"

\* record["Sport"] ? record["Sport"].toLowerCase() : "soccer", then the
\* !mappedRecord.sport default
MapSport(record) ==
  LET v == IF Truthy(record["Sport"]) THEN ToLowerCase(record["Sport"].s) ELSE "soccer"
  IN IF v = "" THEN "soccer" ELSE v

\* record["Condition"] ? record["Condition"].toLowerCase() : "new", then the
\* !mappedRecord.condition default
MapCondition(record) ==
  LET v == IF Truthy(record["Condition"]) THEN ToLowerCase(record["Condition"].s) ELSE "new"
  IN IF v = "" THEN "new" ELSE v

\* the URLs of the IMAGE URL cell, were the segments kept as split
ImageUrlsUntrimmed(cell) ==
  LET imageUrl == ToStringOf(cell)
  IN IF Includes(imageUrl, "|")
     THEN SelectNonEmpty(Split(imageUrl, "|"))
     ELSE <<imageUrl>>

\* the URLs of the IMAGE URL cell
ImageUrls(cell) ==
  LET imageUrl == ToStringOf(cell)
  IN IF Includes(imageUrl, "|")
     THEN LET parts == Split(imageUrl, "|")
          IN SelectNonEmpty([i \in 1..Len(parts) |-> Trim(parts[i])])
     ELSE <<Trim(imageUrl)>>

\* frontImageUrl / backImageUrl after the IMAGE URL block
PipeImages(record) ==
  IF Truthy(record["IMAGE URL"])
  THEN LET urls == ImageUrls(record["IMAGE URL"])
       IN [front |-> IF Len(urls) > 0 /\ urls[1] # "" THEN Str(urls[1]) ELSE Undef,
           back |-> IF Len(urls) > 1 /\ urls[2] # "" THEN Str(urls[2]) ELSE Undef]
  ELSE [front |-> Undef, back |-> Undef]

possibleImageFields == <<"Image URL", "IMAGE URL", "Front Image URL",
                         "Back Image URL", "Front Image", "Back Image">>

\* one iteration of the possibleImageFields loop
ImageFieldStep(img, record, fieldName) ==
  LET cell == record[fieldName]
  IN IF cell.t = "str" /\ cell.s # "" /\ Len(Trim(cell.s)) > 0
     THEN LET url == Trim(cell.s)
          IN IF Includes(url, "http://") \/ Includes(url, "https://")
             THEN IF Includes(ToLowerCase(fieldName), "front") \/ ~Truthy(img.front)
                  THEN [img EXCEPT !.front = Str(url)]
                  ELSE IF Includes(ToLowerCase(fieldName), "back") /\ ~Truthy(img.back)
                       THEN [img EXCEPT !.back = Str(url)]
                       ELSE img
             ELSE img
     ELSE img

RECURSIVE ImageFieldLoop(_, _, _)
ImageFieldLoop(img, record, k) ==
  IF k > Len(possibleImageFields) THEN img
  ELSE ImageFieldLoop(ImageFieldStep(img, record, possibleImageFields[k]), record, k + 1)

MapImages(record) == ImageFieldLoop(PipeImages(record), record, 1)

\* the last four consecutive digits of the string, "" if none
FourDigitsLast(s) ==
  LET ps == {q \in 1..Len(s) :
               q + 3 <= Len(s) /\ \A j \in q..(q + 3) : IsDigit(CharAt(s, j))}
      p == Least({q \in ps : \A r \in ps : r <= q})
  IN IF p # 0 THEN SubSeq(s, p, p + 3) ELSE ""

\* yearStr.match(/(\d{4})/): the first four consecutive digits, "" if none
FourDigits(s) ==
  LET p == Least({q \in 1..Len(s) :
                   q + 3 <= Len(s) /\ \A j \in q..(q + 3) : IsDigit(CharAt(s, j))})
  IN IF p # 0 THEN SubSeq(s, p, p + 3) ELSE ""

\* season/year conversion
MapYear(record) ==
  IF Truthy(record["Season"])
  THEN LET m == FourDigits(ToStringOf(record["Season"]))
       IN IF m # "" THEN ParseDigits(m) ELSE CurrentYear
  ELSE CurrentYear

\* the mappedRecord the mapper returns for a row it does not raise on
MapRecord(record) ==
  LET img == MapImages(record)
  IN [playerName |-> Str(MapPlayerName(record)),
      sport |-> Str(MapSport(record)),
      team |-> OrElse(record["Team"], Null),
      brand |-> OrElse(record["Brand"], Null),
      cardSet |-> OrElse(record["Card Set"], Null),
      cardNumber |-> OrElse(record["Card Number"], Null),
      condition |-> Str(MapCondition(record)),
      notes |-> OrElse(record["Features"], OrElse(record["Card Name"], Null)),
      frontImageUrl |-> img.front,
      backImageUrl |-> img.back,
      year |-> Num(MapYear(record)),
      purchasePrice |-> Num(0),
      currentValue |-> Num(0)]

\* the validRecord handed to storage.createCard
ValidRecord(record) ==
  [playerName |-> OrElse(record.playerName, Str("Unknown Player")),
   sport |-> OrElse(record.sport, Str("soccer")),
   year |-> OrElse(record.year, Num(CurrentYear)),
   condition |-> OrElse(record.condition, Str("new")),
   team |-> OrElse(record.team, Null),
   brand |-> OrElse(record.brand, Null),
   cardSet |-> OrElse(record.cardSet, Null),
   cardNumber |-> OrElse(record.cardNumber, Null),
   purchasePrice |-> Str("0"),
   currentValue |-> Str("0"),
   notes |-> OrElse(record.notes, Null),
   frontImageUrl |-> OrElse(record.frontImageUrl, Null),
   backImageUrl |-> OrElse(record.backImageUrl, Null)]

\* ------------------------------------------------------------------------
\* POST /api/import/text: the line parser
\* ------------------------------------------------------------------------
\* is the character at position p a word character (false outside s)
WordAt(s, p) == p >= 1 /\ p <= Len(s) /\ IsWord(CharAt(s, p))

\* \b between positions p-1 and p
Boundary(s, p) == WordAt(s, p - 1) # WordAt(s, p)

RECURSIVE SkipSpace(_, _)
\* \s* from p: the first position that holds no white space
SkipSpace(s, p) == IF p <= Len(s) /\ CharAt(s, p) \in WhiteSpace
                   THEN SkipSpace(s, p + 1) ELSE p

RECURSIVE DigitRunEnd(_, _)
DigitRunEnd(s, p) == IF p <= Len(s) /\ IsDigit(CharAt(s, p))
                     THEN DigitRunEnd(s, p + 1) ELSE p

RECURSIVE AlphaRunEnd(_, _)
AlphaRunEnd(s, p) == IF p <= Len(s) /\ IsAlpha(CharAt(s, p))
                     THEN AlphaRunEnd(s, p + 1) ELSE p

\* /\b<a>\s*<b>\b/i  (b may be empty: /\b<a>\b/i) on the lower-cased line
TestWords(ls, a, b) ==
  \E p \in 1..Len(ls) :
     /\ MatchAt(ls, p, a)
     /\ Boundary(ls, p)
     /\ LET q == IF b = "" THEN p + Len(a) ELSE SkipSpace(ls, p + Len(a))
        IN MatchAt(ls, q, b) /\ Boundary(ls, q + Len(b))

\* the conditionTerms table, in the order Object.entries walks it
conditionTerms ==
  << [cond |-> "mint",
      pats |-> << <<"mint", "">>, <<"psa", "10">>, <<"gem", "mt">> >>],
     [cond |-> "nearMint",
      pats |-> << <<"near", "mint">>, <<"psa", "9">>, <<"nm", "">>, <<"nm-mt", "">> >>],
     [cond |-> "excellent",
      pats |-> << <<"excellent", "">>, <<"psa", "7">>, <<"psa", "8">>, <<"ex", "">> >>],
     [cond |-> "veryGood",
      pats |-> << <<"very", "good">>, <<"psa", "5">>, <<"psa", "6">>, <<"vg", "">> >>],
     [cond |-> "good",
      pats |-> << <<"good", "">>, <<"psa", "3">>, <<"psa", "4">> >>],
     [cond |-> "fair",
      pats |-> << <<"fair", "">>, <<"psa", "1">>, <<"psa", "2">> >>],
     [cond |-> "poor",
      pats |-> << <<"poor", "">>, <<"psa", "0">> >>] >>

\* regex.test(line) for one entry of the table
TermTest(term, ls) ==
  \E k \in 1..Len(term.pats) : TestWords(ls, term.pats[k][1], term.pats[k][2])

RECURSIVE ConditionFrom(_, _)
\* the for loop over the table from entry j on: it stops at the first entry
\* whose pattern matches
ConditionFrom(ls, j) ==
  IF j > Len(conditionTerms) THEN "new"
  ELSE IF TermTest(conditionTerms[j], ls) THEN conditionTerms[j].cond
       ELSE ConditionFrom(ls, j + 1)

\* the condition of a line: the first entry whose pattern matches, else "new"
LineCondition(line) == ConditionFrom(ToLowerCase(line), 1)

\* line.match(/\b(19|20)\d{2}\b/): the matched text, "" if none
YearMatch(line) ==
  LET p == Least({q \in 1..Len(line) :
                   /\ Boundary(line, q)
                   /\ MatchAt(line, q, "19") \/ MatchAt(line, q, "20")
                   /\ q + 3 <= Len(line)
                   /\ IsDigit(CharAt(line, q + 2)) /\ IsDigit(CharAt(line, q + 3))
                   /\ Boundary(line, q + 4)})
  IN IF p # 0 THEN SubSeq(line, p, p + 3) ELSE ""

LineYear(line) ==
  LET m == YearMatch(line)
  IN IF m # "" THEN ParseDigits(m) ELSE CurrentYear

\* /([A-Z][a-z]+\s+[A-Z][a-z]+)/ at p: the position after the match, 0 if none
TwoWordsEnd(s, p) ==
  LET e == WordEnd(s, p)
  IN IF e # 0 /\ e <= Len(s) /\ CharAt(s, e) \in WhiteSpace
     THEN WordEnd(s, SkipSpace(s, e))
     ELSE 0

\* the player name of a line
LinePlayerName(line) ==
  LET ends == [p \in 1..Len(line) |-> TwoWordsEnd(line, p)]
      p == Least({q \in 1..Len(line) : ends[q] # 0})
  IN IF p # 0 THEN SubSeq(line, p, ends[p] - 1) ELSE "Unknown Player"

brandNames == <<"topps", "panini", "fleer", "upper deck", "bowman", "donruss">>

\* /\b(Topps|Panini|Fleer|Upper Deck|Bowman|Donruss)\b/i at p of the
\* lower-cased line: the length of the brand matched there, 0 if none
BrandLenAt(ls, p) ==
  LET k == Least({j \in 1..Len(brandNames) :
                   /\ MatchAt(ls, p, brandNames[j])
                   /\ Boundary(ls, p)
                   /\ Boundary(ls, p + Len(brandNames[j]))})
  IN IF k # 0 THEN Len(brandNames[k]) ELSE 0

\* brandMatch[0], "" when no brand is named
LineBrand(line) ==
  LET ls == ToLowerCase(line)
      lens == [p \in 1..Len(line) |-> BrandLenAt(ls, p)]
      p == Least({q \in 1..Len(line) : lens[q] # 0})
  IN IF p # 0 THEN SubSeq(line, p, p + lens[p] - 1) ELSE ""

\* new RegExp(`${brand}\\s+([A-Za-z]+)`, 'i') at p of the lower-cased line:
\* where group 1 starts, 0 if the pattern does not match at p
SetStartAt(ls, lb, p) ==
  LET start == SkipSpace(ls, p + Len(lb))
  IN IF /\ MatchAt(ls, p, lb)
        /\ start > p + Len(lb)
        /\ AlphaRunEnd(ls, start) > start
     THEN start ELSE 0

\* setMatch[1] for the brand matched in the line, "" if there is none
LineCardSet(line, brand) ==
  LET ls == ToLowerCase(line)
      lb == ToLowerCase(brand)
      starts == [p \in 1..Len(line) |-> SetStartAt(ls, lb, p)]
      p == Least({q \in 1..Len(line) : starts[q] # 0})
  IN IF brand # "" /\ p # 0
     THEN SubSeq(line, starts[p], AlphaRunEnd(line, starts[p]) - 1)
     ELSE ""

\* line.match(/#\s*(\d+)/)[1], "" if none
LineCardNumber(line) ==
  LET starts == [p \in 1..Len(line) |->
                   IF CharAt(line, p) = "#"
                      /\ DigitRunEnd(line, SkipSpace(line, p + 1)) > SkipSpace(line, p + 1)
                   THEN SkipSpace(line, p + 1) ELSE 0]
      p == Least({q \in 1..Len(line) : starts[q] # 0})
  IN IF p # 0 THEN SubSeq(line, starts[p], DigitRunEnd(line, starts[p]) - 1) ELSE ""

\* the sportKeywords table, in the order Object.entries walks it
sportKeywords ==
  << [sport |-> "basketball", words |-> {"basketball", "nba", "hoops"}],
     [sport |-> "baseball", words |-> {"baseball", "mlb", "diamond"}],
     [sport |-> "football", words |-> {"football", "nfl", "gridiron"}],
     [sport |-> "hockey", words |-> {"hockey", "nhl", "puck"}],
     [sport |-> "soccer", words |-> {"soccer", "fifa", "mls"}] >>

\* lowerLine.includes(keyword) for some keyword of the entry
SportTest(entry, ls) == \E w \in entry.words : Includes(ls, w)

RECURSIVE SportFrom(_, _)
\* the for loop over the table from entry j on: it stops at the first entry
\* one of whose keywords the line holds
SportFrom(ls, j) ==
  IF j > Len(sportKeywords) THEN "soccer"
  ELSE IF SportTest(sportKeywords[j], ls) THEN sportKeywords[j].sport
       ELSE SportFrom(ls, j + 1)

\* the sport of a line: the first entry one of whose keywords it holds, else "soccer"
LineSport(line) == SportFrom(ToLowerCase(line), 1)

StrOrNull(x) == IF x = "" THEN Null ELSE Str(x)

\* the card object built for one line
LineCard(line) ==
  [playerName |-> Str(LinePlayerName(line)),
   sport |-> Str(LineSport(line)),
   year |-> Num(LineYear(line)),
   condition |-> Str(LineCondition(line)),
   brand |-> StrOrNull(LineBrand(line)),
   cardSet |-> StrOrNull(LineCardSet(line, LineBrand(line))),
   cardNumber |-> StrOrNull(LineCardNumber(line)),
   team |-> Null,
   purchasePrice |-> Str("0"),
   currentValue |-> Str("0"),
   notes |-> Str(Trim(line)),
   frontImageUrl |-> Null,
   backImageUrl |-> Null]

RECURSIVE SelectNonBlank(_)
\* filter(line => line.trim().length > 0)
SelectNonBlank(q) == IF q = <<>> THEN <<>>
                     ELSE IF Len(Trim(Head(q))) > 0
                          THEN <<Head(q)>> \o SelectNonBlank(Tail(q))
                          ELSE SelectNonBlank(Tail(q))

\* text.split('\n'), were blank lines kept
TextLinesKeepBlank(text) == Split(text, "\n")

\* text.split('\n').filter(...)
TextLines(text) == SelectNonBlank(Split(text, "\n"))

\* ------------------------------------------------------------------------
\* Requests the client submits
\* ------------------------------------------------------------------------
\* rows of uploaded spreadsheets
RowJordan == Row(("Player Name" :> Str("Michael Jordan")) @@ ("Sport" :> Str("Basketball"))
                 @@ ("Condition" :> Str("Mint")) @@ ("Season" :> Str("1996-1997"))
                 @@ ("Card Number" :> Str("23"))
                 @@ ("IMAGE URL" :> Str("http://a.jpg | http://b.jpg")))
RowPele == Row(("Player Name" :> Str("Pele")) @@ ("Sport" :> Str("Cricket"))
               @@ ("Condition" :> Str("nearMint")))
RowCardName == Row(("Card Name" :> Str("1996 Fleer Ultra Michael Jordan #23 PSA 10")))
RowNumericName == Row(("Player Name" :> Num(23)) @@ ("Card Number" :> Num(5)))
RowTeamOnly == Row(("Team" :> Str("Bulls")))
RowClientColumns == Row(("playerName" :> Str("Larry Bird")) @@ ("sport" :> Str("basketball"))
                        @@ ("condition" :> Str("mint")))
RowImageOnly == Row(("IMAGE URL" :> Str("http://c.jpg")) @@ ("Card Number" :> Str("7")))

RowPipes == Row(("IMAGE URL" :> Str(" | http://d.jpg ||")) @@ ("Card Number" :> Str("9")))
RowImageNoNumber == Row(("IMAGE URL" :> Str("http://e.jpg")))
RowFrontColumn == Row(("Player Name" :> Str("Kobe Bryant"))
                      @@ ("IMAGE URL" :> Str("http://a.jpg | http://b.jpg"))
                      @@ ("Front Image URL" :> Str("http://f.jpg")))
RowBackColumn == Row(("Player Name" :> Str("Tim Duncan"))
                     @@ ("Back Image URL" :> Str("http://k.jpg")))
RowLowerCardName == Row(("Player Name" :> Str("  "))
                        @@ ("Card Name" :> Str("lebron james rookie")))
RowPriced == Row(("Player Name" :> Str("Bill Russell")) @@ ("Season" :> Str("1957"))
                 @@ ("purchasePrice" :> Str("10")) @@ ("currentValue" :> Str("25")))
RowSeasonRange == Row(("Player Name" :> Str("Luka Doncic")) @@ ("Season" :> Str("2023-2024")))
RowSeasonShort == Row(("Player Name" :> Str("Wilt Chamberlain")) @@ ("Season" :> Str("61-62")))
RowPool == {RowJordan, RowPele, RowCardName, RowNumericName, RowTeamOnly,
            RowClientColumns, RowImageOnly, RowPipes, RowImageNoNumber,
            RowFrontColumn, RowBackColumn, RowLowerCardName, RowPriced,
            RowSeasonRange, RowSeasonShort}

\* rows of the files that hold several rows: two the pre-filter keeps and one
\* it drops
BatchRowPool == {RowJordan, RowPele, RowTeamOnly}

\* lines of pasted text
psaGrades == {"10", "9", "8", "7", "6", "5", "4", "3", "2", "1", "0"}

\* lines that hold a grading-service shorthand and no other condition word
PsaLines == {"PSA " \o g : g \in psaGrades}

LinePool == {"1996 Fleer Ultra Michael Jordan #23 PSA 10 Mint",
             "BGS 9.5 Near Mint",
             "no match here",
             " Topps Kobe Bryant \r",
             "  "} \cup PsaLines

\* lines of the texts that hold several lines
BatchLinePool == {"1996 Fleer Ultra Michael Jordan #23 PSA 10 Mint",
                  "BGS 9.5 Near Mint",
                  "  "}

\* sequences over S of length at most n
SeqsUpTo(S, n) == UNION {[1..k -> S] : k \in 0..n}

RECURSIVE JoinLines(_)
JoinLines(q) == IF q = <<>> THEN ""
                ELSE IF Len(q) = 1 THEN q[1]
                     ELSE q[1] \o "\n" \o JoinLines(Tail(q))

\* the column mapping Import.handleUpload sends
ClientColumnMap ==
  [playerName |-> "playerName", sport |-> "sport", year |-> "year", brand |-> "brand",
   cardSet |-> "cardSet", condition |-> "condition", purchasePrice |-> "purchasePrice",
   currentValue |-> "currentValue", notes |-> "notes", cardNumber |-> "cardNumber"]

\* the mapping the handler falls back to
DefaultColumnMap ==
  [playerName |-> "Player Name", sport |-> "Sport", year |-> "Season", brand |-> "Brand",
   cardSet |-> "Card Set", cardNumber |-> "Card Number", condition |-> "Condition",
   team |-> "Team", notes |-> "Features", frontImageUrl |-> "IMAGE URL",
   backImageUrl |-> "IMAGE URL"]

\* the columnMap form field: absent, text that is not JSON, or the JSON text
\* of the client's mapping
ColumnMapFields == {"absent", "invalid", "client"}

CsvMime == "text/csv"
XlsxMime == "application/vnd.openxmlformats-officedocument.spreadsheetml.sheet"

AllStrings(rows) ==
  \A i \in 1..Len(rows) : \A c \in Columns : rows[i][c].t \in {"str", "undef"}

NoFileRequest ==
  [kind |-> "file", hasFile |-> FALSE, mimetype |-> "", malformed |-> FALSE,
   rows |-> <<>>, columnMap |-> "absent", text |-> Undef]

\* an upload of at most one row: any row, with any columnMap field
SingleRowRequests ==
  {[kind |-> "file", hasFile |-> TRUE, mimetype |-> m, malformed |-> bad,
    rows |-> rows, columnMap |-> cm, text |-> Undef] :
      m \in {CsvMime, XlsxMime}, bad \in BOOLEAN,
      rows \in SeqsUpTo(RowPool, 1), cm \in ColumnMapFields}

\* an upload of several rows, sent without a columnMap field
BatchRequests ==
  {[kind |-> "file", hasFile |-> TRUE, mimetype |-> m, malformed |-> FALSE,
    rows |-> rows, columnMap |-> "absent", text |-> Undef] :
      m \in {CsvMime, XlsxMime}, rows \in SeqsUpTo(BatchRowPool, MaxRows)}

FileRequests == {NoFileRequest} \cup SingleRowRequests \cup BatchRequests

\* a csv file holds text only, and a file that does not parse has no rows
WellFormedRequest(r) ==
  /\ r.mimetype = CsvMime => AllStrings(r.rows)
  /\ r.malformed => r.rows = <<>>

TextRequests ==
  {[kind |-> "text", hasFile |-> FALSE, mimetype |-> "", malformed |-> FALSE,
    rows |-> <<>>, columnMap |-> "absent", text |-> t] :
      t \in {Undef, Num(5)} \cup {Str(l) : l \in LinePool}
            \cup {Str(JoinLines(q)) : q \in SeqsUpTo(BatchLinePool, MaxRows)}}

Requests == {r \in FileRequests : WellFormedRequest(r)} \cup TextRequests

\* ------------------------------------------------------------------------
\* State
\* ------------------------------------------------------------------------
VARIABLES
  req,          \* the request the client submits
  imports,      \* how many times it has been submitted
  pc,           \* position of the request handler
  mappedColumns, \* the column mapping the handler settled on
  cardRecords,  \* the candidates of the request being handled
  calls,        \* the storage.createCard calls of the request, by row
  results,      \* the array Promise.all fills, by row
  response,     \* the response sent for the request
  cards,        \* the store
  nextId,       \* the store's id counter
  before,       \* the store when the request arrived
  open,         \* ImportModal: the open prop the parent passes
  importType,   \* ImportModal: the importType state
  trace,        \* ImportModal: what the user and the parent did so far
  lookups       \* the price lookups answered so far, oldest first

\* the state the import and card routes leave alone
sideVars == <<open, importType, trace, lookups>>

vars == <<req, imports, pc, mappedColumns, cardRecords, calls, results, response, cards, nextId, before,
          open, importType, trace, lookups>>

\* no dialog shown and no price looked up
SideInit ==
  /\ open = FALSE
  /\ importType = "null"
  /\ trace = <<>>
  /\ lookups = <<>>

EmptyRec ==
  [playerName |-> Undef, sport |-> Undef, year |-> Undef, condition |-> Undef,
   team |-> Undef, brand |-> Undef, cardSet |-> Undef, cardNumber |-> Undef,
   purchasePrice |-> Undef, currentValue |-> Undef, notes |-> Undef,
   frontImageUrl |-> Undef, backImageUrl |-> Undef]

\* a slot of Promise.all that no promise has filled yet
NoEntry == [settled |-> FALSE, success |-> FALSE, error |-> "",
            data |-> [id |-> 0, rec |-> EmptyRec]]

NoResponse == [status |-> 0, body |-> [message |-> ""]]

\* the error the store rejects createCard with
StoreErrorMessage == "store unavailable"
\* `${error}` of an Error
ErrorToString(msg) == "Error: " \o msg

\* ------------------------------------------------------------------------
\* The store: storage.createCard
\* ------------------------------------------------------------------------
\* the Card the store builds for a candidate
NewCard(id, arg) == [id |-> id, rec |-> arg]

\* a call of createCard: the store draws the next id for it
CallOf(arg, id) == [arg |-> arg, id |-> id, st |-> "pending"]

\* cards.map(async ...): every candidate of the batch is handed to createCard,
\* in row order, before any of the calls completes
Dispatch(args, firstId) == [i \in 1..Len(args) |-> CallOf(args[i], firstId + i - 1)]

\* ------------------------------------------------------------------------
\* POST /api/import
\* ------------------------------------------------------------------------
\* csvParse(content, {columns: true, trim: true}): every record has every
\* column of the header line, as trimmed text
CsvParse(rows) ==
  LET header == {c \in Columns : \E i \in 1..Len(rows) : rows[i][c] # Undef}
  IN [i \in 1..Len(rows) |->
        [c \in Columns |-> IF c \in header THEN Str(Trim(rows[i][c].s)) ELSE Undef]]

\* XLSX.utils.sheet_to_json: a record has the non-empty cells of its row
SheetToJson(rows) == rows

\* JSON.parse(columnMap) fails on a missing field and on text that is not JSON
ParsesAsJson(field) == field = "client"

\* mappedColumns after the try/catch around JSON.parse
MappedColumns(field) == IF ParsesAsJson(field) THEN ClientColumnMap ELSE DefaultColumnMap

\* the handler answers with an error status and a message
Fail(status, message) ==
  /\ pc' = "done"
  /\ response' = [status |-> status, body |-> [message |-> message]]
  /\ cardRecords' = <<>>
  /\ calls' = <<>>
  /\ results' = <<>>
  /\ UNCHANGED <<cards, nextId>>

\* the handler from the filter to the Promise.all it awaits
ProcessRecords(records) ==
  LET kept == FilterRecords(records)
  IN IF \E i \in 1..Len(kept) : MapperThrows(kept[i])
     THEN \* the TypeError leaves records.map and reaches the outer catch
          Fail(500, "Failed to import cards")
     ELSE /\ cardRecords' = [i \in 1..Len(kept) |-> MapRecord(kept[i])]
          /\ calls' = Dispatch([i \in 1..Len(cardRecords') |-> ValidRecord(cardRecords'[i])],
                               nextId)
          /\ nextId' = nextId + Len(cardRecords')
          /\ results' = [i \in 1..Len(cardRecords') |-> NoEntry]
          /\ pc' = "awaiting"
          /\ response' = NoResponse
          /\ UNCHANGED cards

\* the request arrives: the handler runs to its first await
ImportReceive ==
  /\ pc \in {"idle", "done"}
  /\ imports < MaxImports
  /\ req.kind = "file"
  /\ imports' = imports + 1
  /\ before' = cards
  /\ UNCHANGED <<sideVars, req>>
  /\ mappedColumns' = IF req.hasFile THEN MappedColumns(req.columnMap) ELSE DefaultColumnMap
  /\ IF ~req.hasFile
     THEN Fail(400, "No file uploaded")
     ELSE IF req.mimetype = CsvMime
          THEN /\ pc' = "parsing"
               /\ cardRecords' = <<>>
               /\ calls' = <<>>
               /\ results' = <<>>
               /\ response' = NoResponse
               /\ UNCHANGED <<cards, nextId>>
          ELSE IF req.malformed
               THEN Fail(500, "Failed to import cards")
               ELSE ProcessRecords(SheetToJson(req.rows))

\* csvParse calls back
CsvParsed ==
  /\ pc = "parsing"
  /\ UNCHANGED <<sideVars, req, imports, mappedColumns, before>>
  /\ IF req.malformed
     THEN Fail(500, "Failed to import cards")
     ELSE ProcessRecords(CsvParse(req.rows))

\* variant: the outcomes are collected in the order the calls complete
PlaceInCompletionOrder(arr, i, entry) ==
  LET k == CHOOSE j \in 1..Len(arr) :
             ~arr[j].settled /\ \A m \in 1..(j-1) : arr[m].settled
  IN [arr EXCEPT ![k] = entry]

\* Promise.all keeps the value of the i-th promise at index i
Place(arr, i, entry) == [arr EXCEPT ![i] = entry]

SuccessEntry(card) == [settled |-> TRUE, success |-> TRUE, error |-> "", data |-> card]

\* the entry the catch block of a row returns
ImportFailureEntry(record, err) ==
  [settled |-> TRUE, success |-> FALSE,
   error |-> "Error processing record: "
             \o OrElse(record.playerName, Str("Unknown")).s \o " - " \o ErrorToString(err),
   data |-> [id |-> 0, rec |-> record]]

\* variant: a card equal to a stored one is not stored again
ImportRowResolvedSkipsDuplicate(i) ==
  /\ pc = "awaiting" /\ req.kind = "file"
  /\ i \in 1..Len(calls) /\ calls[i].st = "pending"
  /\ calls' = [calls EXCEPT ![i].st = "resolved"]
  /\ cards' = IF \E c \in cards : c.rec = calls[i].arg
              THEN cards
              ELSE cards \cup {NewCard(calls[i].id, calls[i].arg)}
  /\ results' = Place(results, i, SuccessEntry(NewCard(calls[i].id, calls[i].arg)))
  /\ UNCHANGED <<sideVars, req, imports, pc, mappedColumns, cardRecords, response, nextId, before>>

\* createCard of row i resolves: the card is stored and the row succeeds
ImportRowResolved(i) ==
  /\ pc = "awaiting" /\ req.kind = "file"
  /\ i \in 1..Len(calls) /\ calls[i].st = "pending"
  /\ calls' = [calls EXCEPT ![i].st = "resolved"]
  /\ cards' = cards \cup {NewCard(calls[i].id, calls[i].arg)}
  /\ results' = Place(results, i, SuccessEntry(NewCard(calls[i].id, calls[i].arg)))
  /\ UNCHANGED <<sideVars, req, imports, pc, mappedColumns, cardRecords, response, nextId, before>>

\* variant: no catch block around the row, the rejection reaches the outer catch
ImportRowRejectedAborts(i) ==
  /\ pc = "awaiting" /\ req.kind = "file"
  /\ i \in 1..Len(calls) /\ calls[i].st = "pending"
  /\ calls' = [calls EXCEPT ![i].st = "rejected"]
  /\ pc' = "done"
  /\ response' = [status |-> 500, body |-> [message |-> "Failed to import cards"]]
  /\ UNCHANGED <<sideVars, req, imports, mappedColumns, cardRecords, results, cards, nextId, before>>

\* variant: a failing row undoes the cards the batch has stored
ImportRowRejectedRollsBack(i) ==
  /\ pc = "awaiting" /\ req.kind = "file"
  /\ i \in 1..Len(calls) /\ calls[i].st = "pending"
  /\ calls' = [calls EXCEPT ![i].st = "rejected"]
  /\ results' = Place(results, i, ImportFailureEntry(cardRecords[i], StoreErrorMessage))
  /\ cards' = before
  /\ UNCHANGED <<sideVars, req, imports, pc, mappedColumns, cardRecords, response, nextId, before>>

\* createCard of row i rejects: the catch block of the row runs
ImportRowRejected(i) ==
  /\ pc = "awaiting" /\ req.kind = "file"
  /\ i \in 1..Len(calls) /\ calls[i].st = "pending"
  /\ calls' = [calls EXCEPT ![i].st = "rejected"]
  /\ results' = Place(results, i, ImportFailureEntry(cardRecords[i], StoreErrorMessage))
  /\ UNCHANGED <<sideVars, req, imports, pc, mappedColumns, cardRecords, response, cards, nextId, before>>

\* variant: every settled entry is counted as imported
CountSettled(arr) == Cardinality({i \in 1..Len(arr) : arr[i].settled})

\* results.filter(r => r.success).length
CountSuccessful(arr) == Cardinality({i \in 1..Len(arr) : arr[i].success})
CountFailed(arr) == Cardinality({i \in 1..Len(arr) : ~arr[i].success})

ImportMessage(arr) ==
  "Import completed: " \o NumToString(CountSuccessful(arr)) \o " cards imported, "
    \o NumToString(CountFailed(arr)) \o " failed"

\* Promise.all resolves: the counts are taken and the response is sent
ImportRespond ==
  /\ pc = "awaiting" /\ req.kind = "file"
  /\ \A i \in 1..Len(results) : results[i].settled
  /\ pc' = "done"
  /\ response' = [status |-> 200,
                  body |-> [message |-> ImportMessage(results), results |-> results]]
  /\ UNCHANGED <<sideVars, req, imports, mappedColumns, cardRecords, calls, results, cards, nextId, before>>

\* ------------------------------------------------------------------------
\* POST /api/import/text
\* ------------------------------------------------------------------------
TextReceive ==
  /\ pc \in {"idle", "done"}
  /\ imports < MaxImports
  /\ req.kind = "text"
  /\ imports' = imports + 1
  /\ before' = cards
  /\ UNCHANGED <<sideVars, req, mappedColumns>>
  /\ IF ~Truthy(req.text) \/ req.text.t # "str"
     THEN Fail(400, "No text data provided")
     ELSE /\ cardRecords' = LET lines == TextLines(req.text.s)
                            IN [i \in 1..Len(lines) |-> LineCard(lines[i])]
          /\ calls' = Dispatch(cardRecords', nextId)
          /\ nextId' = nextId + Len(cardRecords')
          /\ results' = [i \in 1..Len(cardRecords') |-> NoEntry]
          /\ pc' = "awaiting"
          /\ response' = NoResponse
          /\ UNCHANGED cards

\* the entry the catch block of a line returns
TextFailureEntry(card, err) ==
  [settled |-> TRUE, success |-> FALSE,
   error |-> "Failed to create card: " \o err,
   data |-> [id |-> 0, rec |-> card]]

TextRowResolved(i) ==
  /\ pc = "awaiting" /\ req.kind = "text"
  /\ i \in 1..Len(calls) /\ calls[i].st = "pending"
  /\ calls' = [calls EXCEPT ![i].st = "resolved"]
  /\ cards' = cards \cup {NewCard(calls[i].id, calls[i].arg)}
  /\ results' = Place(results, i, SuccessEntry(NewCard(calls[i].id, calls[i].arg)))
  /\ UNCHANGED <<sideVars, req, imports, pc, mappedColumns, cardRecords, response, nextId, before>>

TextRowRejected(i) ==
  /\ pc = "awaiting" /\ req.kind = "text"
  /\ i \in 1..Len(calls) /\ calls[i].st = "pending"
  /\ calls' = [calls EXCEPT ![i].st = "rejected"]
  /\ results' = Place(results, i, TextFailureEntry(cardRecords[i], StoreErrorMessage))
  /\ UNCHANGED <<sideVars, req, imports, pc, mappedColumns, cardRecords, response, cards, nextId, before>>

TextMessage(arr) ==
  "Successfully imported " \o NumToString(CountSuccessful(arr)) \o " of "
    \o NumToString(Len(arr)) \o " cards"

TextRespond ==
  /\ pc = "awaiting" /\ req.kind = "text"
  /\ \A i \in 1..Len(results) : results[i].settled
  /\ pc' = "done"
  /\ response' = [status |-> 200,
                  body |-> [message |-> TextMessage(results),
                            imported |-> CountSuccessful(results), results |-> results]]
  /\ UNCHANGED <<sideVars, req, imports, mappedColumns, cardRecords, calls, results, cards, nextId, before>>

\* ------------------------------------------------------------------------
\* Specification
\* ------------------------------------------------------------------------
Init ==
  /\ req \in Requests
  /\ imports = 0
  /\ pc = "idle"
  /\ mappedColumns = DefaultColumnMap
  /\ cardRecords = <<>>
  /\ calls = <<>>
  /\ results = <<>>
  /\ response = NoResponse
  /\ cards = {}
  /\ nextId = 1
  /\ before = {}
  /\ SideInit

Next ==
  \/ ImportReceive
  \/ CsvParsed
  \/ \E i \in 1..MaxRows : ImportRowResolved(i)
  \/ \E i \in 1..MaxRows : ImportRowRejected(i)
  \/ ImportRespond
  \/ TextReceive
  \/ \E i \in 1..MaxRows : TextRowResolved(i)
  \/ \E i \in 1..MaxRows : TextRowRejected(i)
  \/ TextRespond

Spec == Init /\ [][Next]_vars

\* ------------------------------------------------------------------------
\* The enumerations of shared/schema.ts
\* ------------------------------------------------------------------------
sportEnum == {"basketball", "baseball", "football", "hockey", "soccer", "other"}
conditionEnum == {"mint", "nearMint", "excellent", "veryGood", "good", "fair", "poor", "new"}

\* ------------------------------------------------------------------------
\* What a request is expected to yield, computed from the request alone
\* ------------------------------------------------------------------------
\* the records the file parses to
ParsedRecords(r) == IF r.mimetype = CsvMime THEN CsvParse(r.rows) ELSE SheetToJson(r.rows)

\* the rows that survive the pre-filter
Survivors(r) == FilterRecords(ParsedRecords(r))

\* the number of surviving rows / non-blank lines
NumCandidates(r) ==
  IF r.kind = "file" THEN Len(Survivors(r)) ELSE Len(TextLines(r.text.s))

\* the candidate of the i-th surviving row / non-blank line
Candidate(r, i) ==
  IF r.kind = "file" THEN MapRecord(Survivors(r)[i]) ELSE LineCard(TextLines(r.text.s)[i])

\* what createCard is called with for a candidate
CreateArg(r, c) == IF r.kind = "file" THEN ValidRecord(c) ELSE c

Answered == pc = "done" /\ response.status = 200

\* ------------------------------------------------------------------------
\* Properties
\* ------------------------------------------------------------------------

\* C1: batch isolation of POST /api/import. Once the handler has handed the
\* rows to createCard, whatever subset of the calls rejects, the request ends
\* with the normal response; every surviving row was handed to createCard;
\* each row whose call rejected is a failure entry that carries the row's
\* mapped candidate, and each other row is a success entry.
BatchIsolation ==
  (req.kind = "file" /\ pc = "done" /\ \E i \in 1..Len(calls) : calls[i].st # "pending")
  => /\ response.status = 200
     /\ Len(calls) = Len(Survivors(req))
     /\ Len(response.body.results) = Len(calls)
     /\ \A i \in 1..Len(calls) :
          /\ calls[i].arg = ValidRecord(MapRecord(Survivors(req)[i]))
          /\ calls[i].st \in {"resolved", "rejected"}
          /\ calls[i].st = "rejected" =>
               /\ ~response.body.results[i].success
               /\ response.body.results[i].data.rec = MapRecord(Survivors(req)[i])
          /\ calls[i].st = "resolved" => response.body.results[i].success

\* C1 witness: a batch answered normally in which a row failed and a later
\* row succeeded
LaterRowSucceedsAfterFailure ==
  /\ req.kind = "file" /\ Answered
  /\ \E i, j \in 1..Len(calls) :
       /\ i < j
       /\ calls[i].st = "rejected" /\ ~response.body.results[i].success
       /\ calls[j].st = "resolved" /\ response.body.results[j].success

\* C2: result order is pinned to input order. In both imports every
\* createCard call of the batch is made before any completes, and in every
\* completion order the entry at index i is the outcome of the call made for
\* the i-th surviving row (i-th non-blank line).
ResultOrderPinned ==
  (pc = "awaiting" \/ Answered)
  => /\ Len(calls) = NumCandidates(req)
     /\ Len(results) = Len(calls)
     /\ \A i \in 1..Len(results) :
          LET c == Candidate(req, i)
          IN /\ calls[i].arg = CreateArg(req, c)
             /\ results[i].settled <=> calls[i].st # "pending"
             /\ results[i].settled =>
                  /\ results[i].success <=> calls[i].st = "resolved"
                  /\ results[i].data =
                       IF results[i].success
                       THEN NewCard(calls[i].id, calls[i].arg)
                       ELSE [id |-> 0, rec |-> c]
     /\ Answered => response.body.results = results

\* C2 witness: the call of the second row has completed while the call of
\* the first, different, row is still pending
SecondRowCompletesFirst ==
  /\ pc = "awaiting" /\ req.kind = "file"
  /\ Len(calls) >= 2
  /\ calls[1].st = "pending" /\ calls[2].st # "pending"
  /\ results[2].settled /\ ~results[1].settled
  /\ cardRecords[1] # cardRecords[2]

\* C3: count accounting of POST /api/import. The results hold one entry per
\* row that survived the pre-filter; the message reports N imported and M
\* failed where N is the number of cards the batch added to the store and
\* N + M is the number of surviving rows.
CountAccounting ==
  (req.kind = "file" /\ Answered)
  => LET n == Len(Survivors(req))
         N == Cardinality(cards \ before)
     IN /\ Len(response.body.results) = n
        /\ N <= n
        /\ response.body.message =
             "Import completed: " \o NumToString(N) \o " cards imported, "
               \o NumToString(n - N) \o " failed"

\* C3 witness: an answered batch in which the pre-filter dropped a row and
\* kept another
PrefilterDroppedARow ==
  /\ req.kind = "file" /\ Answered
  /\ Len(Survivors(req)) >= 1
  /\ Len(Survivors(req)) < Len(req.rows)
  /\ Len(response.body.results) = Len(Survivors(req))

\* C4: the row mapper never raises. Every file that parses, whatever its
\* cells hold, gets the normal response.
MapperNeverRaises ==
  (req.kind = "file" /\ req.hasFile /\ ~req.malformed /\ pc = "done")
  => response.status = 200

\* C5: candidate invariant. Every candidate the row mapper produces has a
\* non-empty playerName, a sport of the sport enumeration and a condition of
\* the condition enumeration.
CandidateInvariant ==
  (req.kind = "file" /\ pc \in {"awaiting", "done"})
  => \A i \in 1..Len(cardRecords) :
       /\ cardRecords[i].playerName.t = "str" /\ cardRecords[i].playerName.s # ""
       /\ cardRecords[i].sport.s \in sportEnum
       /\ cardRecords[i].condition.s \in conditionEnum

\* C6: parse errors abort the import. A file that does not parse, or a
\* columnMap that is not JSON, ends the request with one 4xx response, no
\* createCard call and an unchanged store.
ParseErrorsAbort ==
  (req.kind = "file" /\ req.hasFile /\ pc \in {"awaiting", "done"}
     /\ (req.malformed \/ req.columnMap = "invalid"))
  => /\ calls = <<>>
     /\ cards = before
     /\ pc = "done" => response.status \in 400..499

\* C7: no rollback. Every card created for a row of the batch stays in the
\* store, unaltered, through the failures of other rows and up to the
\* response; the cards stored before the batch stay as well.
NoRollback ==
  req.kind = "file"
  => /\ before \subseteq cards
     /\ \A i \in 1..Len(calls) :
          calls[i].st = "resolved" => NewCard(calls[i].id, calls[i].arg) \in cards
     /\ Answered =>
          \A i \in 1..Len(response.body.results) :
            response.body.results[i].success => response.body.results[i].data \in cards

\* C7 witness: an answered batch in which a row failed after the call of an
\* earlier row had its card stored, and the card is in the store
CardKeptDespiteFailure ==
  /\ req.kind = "file" /\ Answered
  /\ \E i, j \in 1..Len(calls) :
       /\ i < j
       /\ calls[i].st = "resolved" /\ calls[j].st = "rejected"
       /\ NewCard(calls[i].id, calls[i].arg) \in cards

\* C8: import is not idempotent. When every createCard call of a batch
\* succeeds, the store grows by the number of surviving rows, also when the
\* same file was imported before: no row is skipped as a duplicate.
NotIdempotent ==
  (req.kind = "file" /\ Answered /\ \A i \in 1..Len(calls) : calls[i].st = "resolved")
  => Cardinality(cards) = Cardinality(before) + Len(Survivors(req))

\* C8 witness: the same file imported twice, every call succeeding, and the
\* store holds two cards per surviving row
SecondImportDoubles ==
  /\ req.kind = "file" /\ Answered /\ imports = 2
  /\ Len(Survivors(req)) >= 1
  /\ \A i \in 1..Len(calls) : calls[i].st = "resolved"
  /\ Cardinality(before) = Len(Survivors(req))
  /\ Cardinality(cards) = 2 * Len(Survivors(req))

\* C9: row-level failures carry a descriptive message. In both imports each
\* failure entry's message names the row's player name ("Unknown" if it has
\* none) and the entry carries the candidate.
RowFailureNamesPlayer ==
  \A i \in 1..Len(results) :
    (results[i].settled /\ ~results[i].success)
    => /\ Includes(results[i].error, OrElse(cardRecords[i].playerName, Str("Unknown")).s)
       /\ results[i].data.rec = cardRecords[i]

\* C10: the caller's ColumnMapping is honoured. When the request carries a
\* JSON mapping, a row whose cell in the column mapped to playerName is not
\* blank is imported under that name.
ColumnMappingHonoured ==
  (req.kind = "file" /\ Answered /\ ParsesAsJson(req.columnMap))
  => \A k \in 1..Len(ParsedRecords(req)) :
       LET cell == ParsedRecords(req)[k][mappedColumns.playerName]
       IN (cell.t = "str" /\ Trim(cell.s) # "")
          => \E i \in 1..Len(response.body.results) :
               response.body.results[i].data.rec.playerName = Str(Trim(cell.s))

\* ------------------------------------------------------------------------
\* POST /api/cards with {cards: [...]}
\* ------------------------------------------------------------------------
\* String(n)
NumberToString(n) == IF n < 0 THEN "-" \o NumToString(0 - n) ELSE NumToString(n)

\* String(value) of a string or a number
StringOf(v) == IF v.t = "num" THEN NumberToString(v.n) ELSE v.s

AllDigits(s) == s # "" /\ \A i \in 1..Len(s) : IsDigit(CharAt(s, i))

\* Number(value): nan marks NaN
ToNumber(v) ==
  IF v.t = "num" THEN [nan |-> FALSE, n |-> v.n]
  ELSE IF v.t = "null" THEN [nan |-> FALSE, n |-> 0]
  ELSE IF v.t = "undef" THEN [nan |-> TRUE, n |-> 0]
  ELSE LET t == Trim(v.s)
       IN IF t = "" THEN [nan |-> FALSE, n |-> 0]
          ELSE IF AllDigits(t) THEN [nan |-> FALSE, n |-> ParseDigits(t)]
          ELSE IF Head(t) = "-" /\ AllDigits(Tail(t))
               THEN [nan |-> FALSE, n |-> 0 - ParseDigits(Tail(t))]
          ELSE [nan |-> TRUE, n |-> 0]

\* value?.toLowerCase(): undefined for undefined and null
LowerOpt(v) == IF v.t = "str" THEN Str(ToLowerCase(v.s)) ELSE Undef

\* value?.toLowerCase() raises TypeError on a number
BulkMapThrows(card) == card.sport.t = "num" \/ card.condition.t = "num"

\* Number(card.year) || new Date().getFullYear()
BulkYear(card) ==
  LET y == ToNumber(card.year)
  IN IF y.nan \/ y.n = 0 THEN CurrentYear ELSE y.n

\* one element of cardsToCreate
BulkMap(card) ==
  [playerName |-> OrElse(card.playerName, Str("Unknown Player")),
   sport |-> OrElse(LowerOpt(card.sport), Str("soccer")),
   year |-> Num(BulkYear(card)),
   condition |-> OrElse(LowerOpt(card.condition), Str("new")),
   team |-> OrElse(card.team, Null),
   brand |-> OrElse(card.brand, Null),
   cardSet |-> OrElse(card.cardSet, Null),
   cardNumber |-> OrElse(card.cardNumber, Null),
   purchasePrice |-> Str("0"),
   currentValue |-> IF Truthy(card.currentValue)
                    THEN Str(StringOf(card.currentValue)) ELSE Str("0"),
   notes |-> OrElse(card.notes, Null),
   frontImageUrl |-> OrElse(card.frontImageUrl, Null),
   backImageUrl |-> OrElse(card.backImageUrl, Null)]

\* the message of the TypeError a number's missing toLowerCase raises
BulkTypeError == "card.sport?.toLowerCase is not a function"

\* the 201 response of the bulk branch
BulkResponse(created, total) ==
  [status |-> 201,
   body |-> [message |-> "Imported " \o NumToString(Len(created)) \o " of "
                           \o NumToString(total) \o " cards",
             imported |-> Len(created), cards |-> created]]

\* the for loop from its next iteration on: it calls createCard for the next
\* element and waits, or, past the last element, sends the response
BulkContinue(settled, created) ==
  /\ results' = created
  /\ IF Len(settled) < Len(cardRecords')
     THEN /\ calls' = Append(settled, CallOf(cardRecords'[Len(settled) + 1], nextId))
          /\ nextId' = nextId + 1
          /\ pc' = "awaiting"
          /\ response' = response
     ELSE /\ calls' = settled
          /\ nextId' = nextId
          /\ pc' = "done"
          /\ response' = BulkResponse(created, Len(cardRecords'))

\* the request arrives: the array is mapped and the loop entered
BulkReceive ==
  /\ pc = "idle" /\ req.kind = "bulk"
  /\ IF \E i \in 1..Len(req.cards) : BulkMapThrows(req.cards[i])
     THEN /\ pc' = "done"
          /\ response' = [status |-> 500, body |-> [message |-> BulkTypeError]]
          /\ UNCHANGED <<cardRecords, calls, results, nextId>>
     ELSE /\ cardRecords' = [i \in 1..Len(req.cards) |-> BulkMap(req.cards[i])]
          /\ BulkContinue(<<>>, <<>>)
  /\ UNCHANGED <<sideVars, req, imports, mappedColumns, cards, before>>

\* the awaited createCard resolves: the card is stored and pushed to
\* createdCards, and the loop goes on
BulkCallResolved ==
  /\ pc = "awaiting" /\ req.kind = "bulk"
  /\ LET i == Len(calls)
         card == NewCard(calls[i].id, calls[i].arg)
     IN /\ cards' = cards \cup {card}
        /\ cardRecords' = cardRecords
        /\ BulkContinue([calls EXCEPT ![i].st = "resolved"], Append(results, card))
  /\ UNCHANGED <<sideVars, req, imports, mappedColumns, before>>

\* the awaited createCard rejects, were the loop left at the first failure
BulkCallRejectedStops ==
  /\ pc = "awaiting" /\ req.kind = "bulk"
  /\ calls' = [calls EXCEPT ![Len(calls)].st = "rejected"]
  /\ pc' = "done"
  /\ response' = BulkResponse(results, Len(cardRecords))
  /\ UNCHANGED <<sideVars, req, imports, mappedColumns, cardRecords, results, cards, nextId, before>>

\* the awaited createCard rejects: the error is logged and the loop goes on
BulkCallRejected ==
  /\ pc = "awaiting" /\ req.kind = "bulk"
  /\ cardRecords' = cardRecords
  /\ BulkContinue([calls EXCEPT ![Len(calls)].st = "rejected"], results)
  /\ UNCHANGED <<sideVars, req, imports, mappedColumns, cards, before>>

\* the elements of a cards array
BodyCard(f) == [k \in DOMAIN EmptyRec |-> IF k \in DOMAIN f THEN f[k] ELSE Undef]

CardValid == BodyCard([playerName |-> Str("Michael Jordan"), sport |-> Str("basketball"),
                       year |-> Num(1996), condition |-> Str("mint"),
                       currentValue |-> Num(10)])
CardCricket == BodyCard([playerName |-> Str("Pele"), sport |-> Str("Cricket"),
                         year |-> Str("1970"), condition |-> Str("Used")])
CardNegative == BodyCard([playerName |-> Str("Larry Bird"), sport |-> Str("basketball"),
                          year |-> Num(1700), condition |-> Str("good"),
                          currentValue |-> Num(0 - 5)])
CardBare == BodyCard([notes |-> Str("no fields")])
CardNumericSport == BodyCard([playerName |-> Str("Magic Johnson"), sport |-> Num(7)])

BodyCardPool == {CardValid, CardCricket, CardNegative, CardBare, CardNumericSport}

BulkRequests == {[kind |-> "bulk", cards |-> q] : q \in SeqsUpTo(BodyCardPool, MaxRows)}

\* ------------------------------------------------------------------------
\* EbayImporter: the client maps the rows of an eBay export to cards and
\* posts them to the bulk branch
\* ------------------------------------------------------------------------
\* mapEbayConditionToSchema: conditionDesc.includes raises TypeError when
\* the description is undefined and the id is not
EbayConditionThrows(conditionId, conditionDesc) ==
  Truthy(conditionId) /\ conditionDesc.t # "str"

mapEbayConditionToSchema(conditionId, conditionDesc) ==
  LET id == conditionId.s
      desc == conditionDesc.s
  IN IF ~Truthy(conditionId) /\ ~Truthy(conditionDesc) THEN "unknown"
     ELSE IF Includes(desc, "Mint") \/ id = "10" THEN "mint"
     ELSE IF Includes(desc, "Near Mint") \/ id = "9" THEN "nearMint"
     ELSE IF Includes(desc, "Excellent") \/ id = "8" THEN "excellent"
     ELSE IF Includes(desc, "Very Good") \/ id = "7" THEN "veryGood"
     ELSE IF Includes(desc, "Good") \/ id = "6" THEN "good"
     ELSE IF Includes(desc, "Fair") \/ id = "5" THEN "fair"
     ELSE IF Includes(desc, "Poor") \/ id = "4" THEN "poor"
     ELSE "unknown"

\* title.split(' ').slice(0, 2).join(' ')
extractPlayerFromTitle(title) ==
  LET parts == Split(title, " ")
  IN IF Len(parts) >= 2 THEN parts[1] \o " " \o parts[2] ELSE parts[1]

\* title.match(/#(\d+)/)[1], null if none
extractCardNumberFromTitle(title) ==
  LET p == Least({q \in 1..Len(title) :
                   CharAt(title, q) = "#" /\ DigitRunEnd(title, q + 1) > q + 1})
  IN IF p # 0 THEN Str(SubSeq(title, p + 1, DigitRunEnd(title, p + 1) - 1)) ELSE Null

\* parseInt(row["C:Year Manufactured"]) || extractYearFromTitle(row.Title),
\* for a cell that is absent or holds digits
EbayYear(row) ==
  IF row.year.t = "str" /\ AllDigits(row.year.s) /\ ParseDigits(row.year.s) # 0
  THEN ParseDigits(row.year.s)
  ELSE LineYear(row.title.s)

\* the card mapEbayRowToCard builds, as JSON.stringify sends it; the titles
\* name no price, so extractPriceFromTitle gives null
mapEbayRowToCard(row) ==
  [playerName |-> OrElse(row.player, Str(extractPlayerFromTitle(row.title.s))),
   sport |-> Str(ToLowerCase(OrElse(row.sport, Str("")).s)),
   year |-> Num(EbayYear(row)),
   condition |-> Str(mapEbayConditionToSchema(row.conditionId,
                                              OrElse(row.cConditionDesc, row.conditionDesc))),
   team |-> Null,
   brand |-> Null,
   cardSet |-> Null,
   cardNumber |-> extractCardNumberFromTitle(row.title.s),
   purchasePrice |-> Null,
   currentValue |-> Null,
   notes |-> Str("Imported from eBay: " \o row.title.s),
   frontImageUrl |-> Null,
   backImageUrl |-> Null]

\* rows of an eBay export: a blank cell is absent from the row
EbayRow(player, sport, id, cDesc, desc) ==
  [player |-> player, sport |-> sport, year |-> Undef, conditionId |-> id,
   cConditionDesc |-> cDesc, conditionDesc |-> desc,
   title |-> Str("1996 Fleer Michael Jordan #23")]

EbayRowPool ==
  {EbayRow(Str("Michael Jordan"), Str("Basketball"), Str("10"), Undef, Str("Mint")),
   EbayRow(Undef, Undef, Undef, Undef, Undef),
   EbayRow(Undef, Str("Basketball"), Str("9"), Str("Used"), Undef),
   EbayRow(Undef, Str("Cricket"), Str("3000"), Undef, Undef)}

\* what handleImport posts: the file parsed when no row made the mapper
\* raise, and it held a row
EbayRequests ==
  {[kind |-> "bulk", cards |-> [i \in 1..Len(q) |-> mapEbayRowToCard(q[i])]] :
     q \in {r \in SeqsUpTo(EbayRowPool, MaxRows) :
              /\ Len(r) >= 1
              /\ \A i \in 1..Len(r) :
                   ~EbayConditionThrows(r[i].conditionId,
                                        OrElse(r[i].cConditionDesc, r[i].conditionDesc))}}

BulkInit ==
  /\ req \in BulkRequests \cup EbayRequests
  /\ imports = 0
  /\ pc = "idle"
  /\ mappedColumns = DefaultColumnMap
  /\ cardRecords = <<>>
  /\ calls = <<>>
  /\ results = <<>>
  /\ response = NoResponse
  /\ cards = {}
  /\ nextId = 1
  /\ before = {}
  /\ SideInit

BulkNext ==
  \/ BulkReceive
  \/ BulkCallResolved
  \/ BulkCallRejected

BulkSpec == BulkInit /\ [][BulkNext]_vars

\* cardFormSchema.parse accepts the record
CardFormValid(rec) ==
  /\ rec.playerName.t = "str" /\ Len(rec.playerName.s) >= 1
  /\ rec.sport.t = "str" /\ Len(rec.sport.s) >= 1
  /\ rec.year.t = "num" /\ rec.year.n >= 1800 /\ rec.year.n <= CurrentYear + 1
  /\ rec.purchasePrice.t \in {"str", "num"}
       => ~ToNumber(rec.purchasePrice).nan /\ ToNumber(rec.purchasePrice).n >= 0
  /\ rec.currentValue.t \in {"str", "num"}
       => ~ToNumber(rec.currentValue).nan /\ ToNumber(rec.currentValue).n >= 0

\* sport and condition are values of sportEnum and conditionEnum
EnumValid(rec) ==
  /\ rec.sport.t = "str" /\ rec.sport.s \in sportEnum
  /\ rec.condition.t = "str" /\ rec.condition.s \in conditionEnum

\* C11: the bulk branch of POST /api/cards validates each card before
\* persisting it: every record handed to createCard satisfies the card
\* schema (name and sport present, year in range, values not negative) and
\* has a sport and a condition of the enumerations.
BulkValidatesBeforePersisting ==
  req.kind = "bulk"
  => \A i \in 1..Len(calls) : CardFormValid(calls[i].arg) /\ EnumValid(calls[i].arg)

\* ------------------------------------------------------------------------
\* Properties of the text line parser
\* ------------------------------------------------------------------------
JordanLine == "1996 Fleer Ultra Michael Jordan #23 PSA 10 Mint"

\* the candidate of the only line of a one-line text, once parsed
ParsedLine(line) ==
  req.kind = "text" /\ req.text = Str(line) /\ pc \in {"awaiting", "done"}

\* C12: the line "1996 Fleer Ultra Michael Jordan #23 PSA 10 Mint" yields a
\* candidate with playerName "Michael Jordan", year 1996, brand "Fleer",
\* cardSet "Ultra", cardNumber "23", condition "mint", sport "soccer" and
\* currentValue 0: the player name is the player's two-word name even when
\* a capitalized brand and set name precede it.
JordanLineCandidate ==
  ParsedLine(JordanLine)
  => /\ Len(cardRecords) = 1
     /\ cardRecords[1].playerName = Str("Michael Jordan")
     /\ cardRecords[1].year = Num(1996)
     /\ cardRecords[1].brand = Str("Fleer")
     /\ cardRecords[1].cardSet = Str("Ultra")
     /\ cardRecords[1].cardNumber = Str("23")
     /\ cardRecords[1].condition = Str("mint")
     /\ cardRecords[1].sport = Str("soccer")
     /\ ToNumber(cardRecords[1].currentValue).n = 0

\* the text of the request has been split into lines and parsed
TextParsed == req.kind = "text" /\ req.text.t = "str" /\ pc \in {"awaiting", "done"}

\* C13: a line that contains "Near Mint" is classified nearMint, and a line
\* that contains "PSA 10" or "Gem Mint" is classified mint: no earlier,
\* shorter pattern of the table captures the more specific phrase.
NearMintClassified ==
  TextParsed
  => \A i \in 1..Len(cardRecords) :
       LET ls == ToLowerCase(TextLines(req.text.s)[i])
       IN /\ Includes(ls, "near mint") => cardRecords[i].condition = Str("nearMint")
          /\ (~Includes(ls, "near mint")
                /\ (Includes(ls, "psa 10") \/ Includes(ls, "gem mint")))
               => cardRecords[i].condition = Str("mint")

\* ------------------------------------------------------------------------
\* Properties of the row mapper
\* ------------------------------------------------------------------------
\* the rows of the file have been mapped
FileMapped ==
  req.kind = "file" /\ pc \in {"awaiting", "done"} /\ Len(cardRecords) = Len(Survivors(req))

otherImageFields == {"Image URL", "Front Image URL", "Back Image URL",
                     "Front Image", "Back Image"}

\* the row holds images in its IMAGE URL cell only
PipeCellOnly(record) ==
  /\ record["IMAGE URL"].t = "str" /\ record["IMAGE URL"].s # ""
  /\ \A f \in otherImageFields : ~Truthy(record[f])

\* s holds nothing but white space and pipes
Blankish(s) == \A i \in 1..Len(s) : CharAt(s, i) \in WhiteSpace \cup {"|"}

\* f is the first non-empty trimmed segment of s and starts at p
SegmentAt(s, p, f) ==
  /\ f # "" /\ Trim(f) = f /\ ~Includes(f, "|")
  /\ MatchAt(s, p, f)
  /\ Blankish(SubSeq(s, 1, p - 1))
  /\ LET q == SkipSpace(s, p + Len(f))
     IN q > Len(s) \/ CharAt(s, q) = "|"

\* what follows the pipe that closes the segment f at p
RestAfter(s, p, f) == SubSeq(s, SkipSpace(s, p + Len(f)) + 1, Len(s))

\* front and back are the first and the second surviving segment of the cell
FirstTwoSegments(cell, front, back) ==
  IF Blankish(cell) THEN ~Truthy(front) /\ ~Truthy(back)
  ELSE /\ front.t = "str"
       /\ \E p \in 1..Len(cell) :
            /\ SegmentAt(cell, p, front.s)
            /\ LET rest == RestAfter(cell, p, front.s)
               IN IF Blankish(rest) THEN ~Truthy(back)
                  ELSE /\ back.t = "str"
                       /\ \E q \in 1..Len(rest) : SegmentAt(rest, q, back.s)

EnumsGatePersistence ==
  req.kind = "file"
  => /\ \A i \in 1..Len(calls) : EnumValid(calls[i].arg)
     /\ Answered =>
          \A i \in 1..Len(cardRecords) :
            ~EnumValid(cardRecords[i]) => ~response.body.results[i].success

\* the row has a name-bearing column / an image- or number-bearing column
HasNameColumn(record) == Truthy(record["Player Name"]) \/ Truthy(record["Card Name"])
HasImageOrNumberColumn(record) ==
  record["IMAGE URL"] # Undef \/ record["Card Number"] # Undef

\* C16: a row is dropped before mapping exactly when it lacks both a
\* name-bearing column (Player Name / Card Name) and an image/number-bearing
\* column (IMAGE URL / Card Number): the rows that have one of them, and
\* only those, are mapped and get a result entry.
PrefilterExact ==
  (req.kind = "file" /\ (pc = "awaiting" \/ Answered))
  => LET records == ParsedRecords(req)
         kept == {i \in 1..Len(records) :
                    HasNameColumn(records[i]) \/ HasImageOrNumberColumn(records[i])}
     IN /\ Len(cardRecords) = Cardinality(kept)
        /\ Answered => Len(response.body.results) = Cardinality(kept)

\* the trimmed values of the named image columns that look like URLs, for
\* the columns whose name holds (front) or does not hold (back) the word
UrlsOfColumns(record, word, holds) ==
  {Str(Trim(record[f].s)) : f \in {g \in otherImageFields :
      /\ Includes(ToLowerCase(g), word) = holds
      /\ record[g].t = "str"
      /\ Includes(record[g].s, "http://") \/ Includes(record[g].s, "https://")}}

\* C17: a value of an additional image column is assigned to frontImageUrl
\* (backImageUrl) only if the pipe-delimited cell left that target empty and
\* only if it holds "http://" or "https://"; a front column only ever fills
\* frontImageUrl and a back column only ever fills backImageUrl.
NamedColumnsNeverOverwrite ==
  FileMapped
  => \A i \in 1..Len(cardRecords) :
       LET record == Survivors(req)[i]
           pipe == PipeImages(record)
           front == cardRecords[i].frontImageUrl
           back == cardRecords[i].backImageUrl
       IN /\ Truthy(pipe.front) => front = pipe.front
          /\ Truthy(pipe.back) => back = pipe.back
          /\ (~Truthy(pipe.front) /\ Truthy(front))
               => front \in UrlsOfColumns(record, "back", FALSE)
          /\ (~Truthy(pipe.back) /\ Truthy(back))
               => back \in UrlsOfColumns(record, "front", FALSE)

\* C18: for a line with no other condition keyword, PSA 10 maps to mint,
\* PSA 9 to nearMint, PSA 8 to excellent, PSA 7 and PSA 6 to veryGood, PSA 5
\* and PSA 4 to good, PSA 2 and PSA 1 to fair and PSA 0 to poor; a line with
\* no condition keyword gets "new".
GradeTable ==
  /\ \A g \in psaGrades \ {"3"} :
       ParsedLine("PSA " \o g)
       => cardRecords[1].condition =
            Str(CASE g = "10" -> "mint"
                  [] g = "9" -> "nearMint"
                  [] g = "8" -> "excellent"
                  [] g \in {"7", "6"} -> "veryGood"
                  [] g \in {"5", "4"} -> "good"
                  [] g \in {"2", "1"} -> "fair"
                  [] g = "0" -> "poor")
  /\ ParsedLine("no match here") => cardRecords[1].condition = Str("new")

\* C19: when the mapped source column of a field other than the player name
\* is absent or empty, the mapper applies the field's extractor to the free
\* text of the row before it uses the default: a row with no Season whose
\* Card Name holds a year gets that year, and a row with no Condition whose
\* Card Name holds "PSA 10" gets condition mint.
FallbackExtraction ==
  FileMapped
  => \A i \in 1..Len(cardRecords) :
       LET record == Survivors(req)[i]
           name == record["Card Name"]
       IN name.t = "str"
          => /\ (~Truthy(record["Season"]) /\ YearMatch(name.s) # "")
                  => cardRecords[i].year = Num(LineYear(name.s))
             /\ (~Truthy(record["Condition"]) /\ Includes(ToLowerCase(name.s), "psa 10"))
                  => cardRecords[i].condition = Str("mint")

RECURSIVE TokenEnd(_, _)
\* the position after the run of non-white-space characters that starts at p
TokenEnd(s, p) == IF p <= Len(s) /\ CharAt(s, p) \notin WhiteSpace
                  THEN TokenEnd(s, p + 1) ELSE p

\* the first two whitespace-separated tokens of a trimmed, non-empty string
FirstTwoTokens(s) ==
  LET e1 == TokenEnd(s, 1)
      p2 == SkipSpace(s, e1)
  IN IF p2 > Len(s) THEN s
     ELSE SubSeq(s, 1, e1 - 1) \o " " \o SubSeq(s, p2, TokenEnd(s, p2) - 1)

\* C20: the player name of a mapped row is the trimmed Player Name cell if
\* it is not blank; otherwise the player-name extractor applied to the Card
\* Name cell (two consecutive capitalized words, else the first two
\* whitespace-separated tokens); otherwise "Unknown Player"; it is never the
\* empty string.
PlayerNameResolution ==
  FileMapped
  => \A i \in 1..Len(cardRecords) :
       LET record == Survivors(req)[i]
           pn == record["Player Name"]
           cn == record["Card Name"]
           name == cardRecords[i].playerName
       IN /\ name.t = "str" /\ name.s # ""
          /\ IF pn.t = "str" /\ Trim(pn.s) # ""
             THEN name.s = Trim(pn.s)
             ELSE IF cn.t = "str" /\ Trim(cn.s) # ""
                  THEN name.s = IF LinePlayerName(Trim(cn.s)) # "Unknown Player"
                                THEN LinePlayerName(Trim(cn.s))
                                ELSE FirstTwoTokens(Trim(cn.s))
                  ELSE name.s = "Unknown Player"

\* the value the claim assigns to a price field: the number in the cell,
\* 0 when the cell is missing or does not parse
CoercedPrice(cell) ==
  IF cell.t \in {"str", "num"} /\ ~ToNumber(cell).nan THEN ToNumber(cell).n ELSE 0

\* C21: purchasePrice and currentValue of the candidate and of the record
\* handed to the store are the numeric value of the mapped source cell when
\* it parses as a number and 0 otherwise: a row with a parseable price does
\* not lose it.
PricesCoerced ==
  (FileMapped /\ req.columnMap = "client")
  => \A i \in 1..Len(cardRecords) :
       LET record == Survivors(req)[i]
           purchase == CoercedPrice(record[mappedColumns.purchasePrice])
           current == CoercedPrice(record[mappedColumns.currentValue])
       IN /\ ToNumber(cardRecords[i].purchasePrice).n = purchase
          /\ ToNumber(cardRecords[i].currentValue).n = current
          /\ i <= Len(calls) =>
               /\ ToNumber(calls[i].arg.purchasePrice).n = purchase
               /\ ToNumber(calls[i].arg.currentValue).n = current

\* four digits stand at p of s
GroupAt(s, p) == p + 3 <= Len(s) /\ \A j \in p..(p + 3) : IsDigit(CharAt(s, j))

\* C22: when the Season cell holds a range or string such as "2023-2024" the
\* year is its first 4-digit group; when the cell is missing or holds no
\* 4-digit group the year is the current calendar year; the year is always
\* an integer.
YearNormalized ==
  FileMapped
  => \A i \in 1..Len(cardRecords) :
       LET season == Survivors(req)[i]["Season"]
           year == cardRecords[i].year
       IN /\ year.t = "num"
          /\ season.t = "str" =>
               /\ \A p \in 1..Len(season.s) :
                    (GroupAt(season.s, p) /\ \A q \in 1..(p - 1) : ~GroupAt(season.s, q))
                    => year.n = ParseDigits(SubSeq(season.s, p, p + 3))
               /\ (\A p \in 1..Len(season.s) : ~GroupAt(season.s, p))
                    => year.n = CurrentYear
               /\ season.s = "2023-2024" => year.n = 2023
          /\ season.t = "undef" => year.n = CurrentYear

\* C22 witness: a mapped row whose Season cell is a range, with the first
\* year of the range as its year
SeasonRangeMapped ==
  /\ FileMapped
  /\ \E i \in 1..Len(cardRecords) :
       /\ Survivors(req)[i]["Season"] = Str("2023-2024")
       /\ cardRecords[i].year = Num(2023)

\* the positions of s at which a line starts
LineStarts(s) == {1} \cup {p + 1 : p \in {q \in 1..Len(s) : CharAt(s, q) = "\n"}}

\* the line that starts at p holds a character that is not white space
NonBlankFrom(s, p) ==
  \E j \in p..Len(s) :
    /\ CharAt(s, j) \notin WhiteSpace
    /\ \A k \in p..j : CharAt(s, k) # "\n"

\* C23: the text import never rejects a line for an extraction miss: the
\* results hold exactly one entry per non-blank line, and a line in which no
\* pattern matches yields a candidate with the current year, condition "new",
\* playerName "Unknown Player", sport "soccer", no brand, cardSet or
\* cardNumber and both prices 0, which is a success whenever createCard
\* succeeds.
ExtractionMissIsNoError ==
  /\ TextParsed
     => /\ Len(cardRecords) =
             Cardinality({p \in LineStarts(req.text.s) : NonBlankFrom(req.text.s, p)})
        /\ Len(results) = Len(cardRecords)
        /\ Answered => Len(response.body.results) = Len(cardRecords)
  /\ ParsedLine("no match here")
     => /\ cardRecords[1].year = Num(CurrentYear)
        /\ cardRecords[1].condition = Str("new")
        /\ cardRecords[1].playerName = Str("Unknown Player")
        /\ cardRecords[1].sport = Str("soccer")
        /\ ~Truthy(cardRecords[1].brand)
        /\ ~Truthy(cardRecords[1].cardSet)
        /\ ~Truthy(cardRecords[1].cardNumber)
        /\ ToNumber(cardRecords[1].purchasePrice).n = 0
        /\ ToNumber(cardRecords[1].currentValue).n = 0
        /\ calls[1].st = "resolved" => results[1].success
        /\ pc = "done" => response.status = 200

\* C23 witness: the line without any match was imported and reported as a
\* success
NoMatchLineImported ==
  /\ ParsedLine("no match here") /\ Answered
  /\ response.body.results[1].success
  /\ response.body.results[1].data \in cards

\* C24: for every non-blank input line the notes of its candidate are the
\* full line exactly as it stood between the newline separators, leading
\* and trailing white space included.
NotesVerbatim ==
  TextParsed
  => LET starts == {p \in LineStarts(req.text.s) : NonBlankFrom(req.text.s, p)}
     IN \A i \in 1..Len(cardRecords) :
          \E p \in starts :
            /\ Cardinality({q \in starts : q < p}) = i - 1
            /\ \E e \in p..(Len(req.text.s) + 1) :
                 /\ e = Len(req.text.s) + 1 \/ CharAt(req.text.s, e) = "\n"
                 /\ \A k \in p..(e - 1) : CharAt(req.text.s, k) # "\n"
                 /\ cardRecords[i].notes = Str(SubSeq(req.text.s, p, e - 1))

\* C25: every card persisted through the eBay importer (mapEbayRowToCard,
\* then the bulk branch of POST /api/cards) has a condition of the condition
\* enumeration and a sport of the sport enumeration, for every combination
\* of present and blank ConditionID, condition description and C:Sport.
EbayKeepsEnums ==
  req \in EbayRequests
  => /\ \A i \in 1..Len(calls) : EnumValid(calls[i].arg)
     /\ \A c \in cards : EnumValid(c.rec)

\* the calls of the bulk branch that resolved, among the first i
ResolvedUpTo(i) == {j \in 1..i : calls[j].st = "resolved"}

\* C26: the bulk branch of POST /api/cards processes the cards in array
\* order with at most one createCard call in flight; a failing call does not
\* keep later cards from being attempted; the response reports imported =
\* the number of successful calls, with cards holding exactly the created
\* cards in array order.
BulkSequential ==
  req.kind = "bulk"
  => /\ Len(calls) <= Len(req.cards)
     /\ \A i \in 1..Len(calls) :
          /\ calls[i].arg = BulkMap(req.cards[i])
          /\ calls[i].st = "pending" => i = Len(calls) /\ pc = "awaiting"
     /\ pc = "awaiting" => calls # <<>> /\ calls[Len(calls)].st = "pending"
     /\ (pc = "done" /\ response.status = 201)
          => /\ Len(calls) = Len(req.cards)
             /\ response.body.imported = Cardinality(ResolvedUpTo(Len(calls)))
             /\ Len(response.body.cards) = response.body.imported
             /\ \A i \in ResolvedUpTo(Len(calls)) :
                  response.body.cards[Cardinality(ResolvedUpTo(i))]
                    = NewCard(calls[i].id, calls[i].arg)
             /\ \A k \in 1..Len(response.body.cards) : response.body.cards[k] \in cards

\* C26 witness: a bulk import answered after a call failed and the call for
\* the next card succeeded
BulkLaterCardCreated ==
  /\ req.kind = "bulk" /\ pc = "done" /\ response.status = 201
  /\ \E i \in 1..(Len(calls) - 1) :
       calls[i].st = "rejected" /\ calls[i + 1].st = "resolved"
  /\ response.body.imported >= 1

\* ------------------------------------------------------------------------
\* The card endpoints that take an id: GET, PUT and DELETE /api/cards/:id,
\* GET /api/cards/:id/history and GET /api/cards/:id/price
\* ------------------------------------------------------------------------
\* parseInt(text): leading white space, a sign, then the longest run of
\* digits; NaN when there is none
ParseInt(text) ==
  LET t == TrimStart(text)
      neg == t # "" /\ Head(t) = "-"
      u == IF t # "" /\ Head(t) \in {"-", "+"} THEN Tail(t) ELSE t
      e == DigitRunEnd(u, 1)
  IN IF e = 1 THEN [nan |-> TRUE, n |-> 0]
     ELSE [nan |-> FALSE,
           n |-> IF neg THEN 0 - ParseDigits(SubSeq(u, 1, e - 1))
                 ELSE ParseDigits(SubSeq(u, 1, e - 1))]

\* a handler that skips the isNaN test
InvalidIdNever(param) == FALSE

\* isNaN(parseInt(req.params.id))
InvalidId(param) == ParseInt(param).nan

\* the stored cards with the id (storage.getCardById)
CardsWithId(id) == {c \in cards : c.id = id}

\* the request is answered; log holds the calls made to the store
CardAnswer(endpoint, param, status, message, data, log) ==
  /\ req' = [kind |-> "card", endpoint |-> endpoint, id |-> param]
  /\ response' = [status |-> status, body |-> [message |-> message, data |-> data]]
  /\ calls' = log
  /\ before' = cards
  /\ UNCHANGED <<sideVars, imports, pc, mappedColumns, cardRecords, results, nextId>>

\* GET /api/cards/:id
GetCardById(param) ==
  LET id == ParseInt(param).n
      log == <<[op |-> "getCardById", id |-> id]>>
  IN /\ UNCHANGED cards
     /\ IF InvalidId(param) THEN CardAnswer("GET", param, 400, "Invalid ID", {}, <<>>)
        ELSE IF CardsWithId(id) = {}
             THEN CardAnswer("GET", param, 404, "Card not found", {}, log)
             ELSE CardAnswer("GET", param, 200, "", CardsWithId(id), log)

\* the card storage.updateCard leaves in place of a stored one
UpdatedCard(c, notes) == [c EXCEPT !.rec.notes = Str(notes)]

\* PUT /api/cards/:id with a body that sets the notes
PutCard(param, notes) ==
  LET id == ParseInt(param).n
      log == <<[op |-> "updateCard", id |-> id]>>
      updated == {UpdatedCard(c, notes) : c \in CardsWithId(id)}
  IN IF InvalidId(param)
     THEN UNCHANGED cards /\ CardAnswer("PUT", param, 400, "Invalid ID", {}, <<>>)
     ELSE IF CardsWithId(id) = {}
          THEN UNCHANGED cards /\ CardAnswer("PUT", param, 404, "Card not found", {}, log)
          ELSE /\ cards' = (cards \ CardsWithId(id)) \cup updated
               /\ CardAnswer("PUT", param, 200, "", updated, log)

\* DELETE /api/cards/:id
DeleteCard(param) ==
  LET id == ParseInt(param).n
      log == <<[op |-> "deleteCard", id |-> id]>>
  IN IF InvalidId(param)
     THEN UNCHANGED cards /\ CardAnswer("DELETE", param, 400, "Invalid ID", {}, <<>>)
     ELSE IF CardsWithId(id) = {}
          THEN UNCHANGED cards /\ CardAnswer("DELETE", param, 404, "Card not found", {}, log)
          ELSE /\ cards' = cards \ CardsWithId(id)
               /\ CardAnswer("DELETE", param, 204, "", {}, log)

\* GET /api/cards/:id/history
GetCardHistory(param) ==
  LET id == ParseInt(param).n
      log == <<[op |-> "getValueHistoryByCardId", id |-> id]>>
  IN /\ UNCHANGED cards
     /\ IF InvalidId(param) THEN CardAnswer("HISTORY", param, 400, "Invalid ID", {}, <<>>)
        ELSE CardAnswer("HISTORY", param, 200, "", {}, log)

\* GET /api/cards/:id/price; data holds the card of the body, the price
\* analysis beside it reads no state and is left to scrapeEbayPrices below
GetCardPrice(param) ==
  LET id == ParseInt(param).n
      log == <<[op |-> "getCardById", id |-> id]>>
  IN /\ UNCHANGED cards
     /\ IF InvalidId(param) THEN CardAnswer("PRICE", param, 400, "Invalid ID", {}, <<>>)
        ELSE IF CardsWithId(id) = {}
             THEN CardAnswer("PRICE", param, 404, "Card not found", {}, log)
             ELSE CardAnswer("PRICE", param, 200, "", CardsWithId(id), log)

\* the id parameters clients send
IdParams == {"1", "2", " 2", "12abc", "abc", "", "-1", "x1"}

\* the notes a PUT body sets
NotesPool == {"edited"}

\* the cards the store may hold at the start
StoredCards == {NewCard(1, ValidRecord(MapRecord(RowJordan))),
                NewCard(2, ValidRecord(MapRecord(RowPele)))}

CardInit ==
  /\ cards \in SUBSET StoredCards
  /\ req = [kind |-> "card", endpoint |-> "", id |-> ""]
  /\ response = [status |-> 0, body |-> [message |-> "", data |-> {}]]
  /\ calls = <<>>
  /\ before = cards
  /\ SideInit
  /\ imports = 0
  /\ pc = "idle"
  /\ mappedColumns = DefaultColumnMap
  /\ cardRecords = <<>>
  /\ results = <<>>
  /\ nextId = 3

CardNext ==
  \/ \E param \in IdParams : GetCardById(param)
  \/ \E param \in IdParams, notes \in NotesPool : PutCard(param, notes)
  \/ \E param \in IdParams : DeleteCard(param)
  \/ \E param \in IdParams : GetCardHistory(param)
  \/ \E param \in IdParams : GetCardPrice(param)

CardSpec == CardInit /\ [][CardNext]_vars

\* C27: on the five card endpoints an id parameter that does not parse to a
\* number yields 400 "Invalid ID" without any call to the store; on GET, PUT
\* and DELETE /api/cards/:id an id with no stored card yields 404 and leaves
\* the store unchanged.
IdValidation ==
  (req.kind = "card" /\ response.status # 0)
  => /\ ParseInt(req.id).nan
          => /\ response.status = 400
             /\ response.body.message = "Invalid ID"
             /\ calls = <<>>
             /\ cards = before
     /\ (/\ ~ParseInt(req.id).nan
         /\ req.endpoint \in {"GET", "PUT", "DELETE"}
         /\ \A c \in before : c.id # ParseInt(req.id).n)
          => /\ response.status = 404
             /\ cards = before

\* C27 witness: a DELETE for an id no card has called the store, was
\* answered 404 and left the cards the store held in place
UnknownIdRefused ==
  /\ req.kind = "card" /\ req.endpoint = "DELETE" /\ response.status = 404
  /\ calls # <<>>
  /\ cards # {} /\ cards = before

\* ------------------------------------------------------------------------
\* CsvImporter: what the client shows for a response of POST /api/import
\* ------------------------------------------------------------------------
\* importMutation.onSuccess: setTotalImported(data.imported || 0)
TotalImported(data) ==
  IF "imported" \in DOMAIN data /\ data.imported # 0 THEN data.imported ELSE 0

\* the success message of CsvImporter
SuccessMessage(data) ==
  "Successfully imported " \o NumToString(TotalImported(data)) \o " cards!"

\* C28: after a successful POST /api/import the number of imported cards in
\* CsvImporter's success message equals the number of success entries in the
\* results array of the response.
ImportCountAgrees ==
  (req.kind = "file" /\ pc = "done" /\ response.status = 200)
  => /\ TotalImported(response.body) = CountSuccessful(response.body.results)
     /\ SuccessMessage(response.body)
          = "Successfully imported "
              \o NumToString(CountSuccessful(response.body.results)) \o " cards!"

\* ------------------------------------------------------------------------
\* ImportModal: the dialog that offers the three importers
\* ------------------------------------------------------------------------
\* how many things the user and the parent do to the dialog
MaxSteps == 5

\* the importers the chooser offers
importTypes == {"csv", "ebay", "advanced"}

\* the state the dialog never touches
ModalFrame == UNCHANGED <<req, imports, pc, mappedColumns, cardRecords, calls, results,
                          response, cards, nextId, before, lookups>>

\* handleOpenChange(o): reset the import type on closing, then tell the
\* parent; whether the parent then changes the prop is the parent's choice
handleOpenChange(o, parentFollows) ==
  /\ importType' = IF ~o THEN "null" ELSE importType
  /\ open' = IF parentFollows THEN o ELSE open

\* a button of the chooser is clicked: setImportType(t)
ChooseMethod(t) ==
  /\ open /\ importType = "null" /\ Len(trace) < MaxSteps
  /\ importType' = t
  /\ trace' = Append(trace, "choose")
  /\ UNCHANGED open
  /\ ModalFrame

\* the importer shown calls its onOpenChange: setImportType(null)
ImporterCancel ==
  /\ open /\ importType \in importTypes /\ Len(trace) < MaxSteps
  /\ importType' = "null"
  /\ trace' = Append(trace, "cancel")
  /\ UNCHANGED open
  /\ ModalFrame

\* the Dialog reports a close through its own control
DialogDismiss(parentFollows) ==
  /\ open /\ Len(trace) < MaxSteps
  /\ handleOpenChange(FALSE, parentFollows)
  /\ trace' = Append(trace, "dismiss")
  /\ ModalFrame

\* the parent renders the modal with another value of the open prop; the
\* Dialog is controlled, so handleOpenChange does not run
ParentSetsOpen(o) ==
  /\ o # open /\ Len(trace) < MaxSteps
  /\ open' = o
  /\ trace' = Append(trace, IF o THEN "open" ELSE "close")
  /\ UNCHANGED importType
  /\ ModalFrame

ModalInit ==
  /\ req = [kind |-> "modal"]
  /\ imports = 0
  /\ pc = "idle"
  /\ mappedColumns = DefaultColumnMap
  /\ cardRecords = <<>>
  /\ calls = <<>>
  /\ results = <<>>
  /\ response = NoResponse
  /\ cards = {}
  /\ nextId = 1
  /\ before = {}
  /\ SideInit

ModalNext ==
  \/ \E t \in importTypes : ChooseMethod(t)
  \/ ImporterCancel
  \/ \E parentFollows \in BOOLEAN : DialogDismiss(parentFollows)
  \/ \E o \in BOOLEAN : ParentSetsOpen(o)

ModalSpec == ModalInit /\ [][ModalNext]_vars

\* C29: whenever the dialog goes from closed to open it shows the method
\* chooser (importType is null), whatever was chosen, cancelled, dismissed or
\* set by the parent before; and cancelling inside an importer returns to the
\* chooser with the dialog still open.
ChooserOnReopen ==
  [][/\ (~open /\ open') => importType' = "null"
     /\ (open /\ importType \in importTypes /\ importType' = "null"
           /\ trace' = Append(trace, "cancel")) => open']_vars

\* ------------------------------------------------------------------------
\* The simulated price lookup: scrapeEbayPrices and GET /api/prices
\* ------------------------------------------------------------------------
\* how many lookups are answered
MaxLookups == 3

\* the printable characters in code order: from the space (code 32) to the
\* underscore (95), and from "a" (97) to the tilde (126)
AsciiLow ==
  " !\"#$%&'()*+,-./0123456789:;<=>?@ABCDEFGHIJKLMNOPQRSTUVWXYZ[\\]^_"
AsciiHigh == "abcdefghijklmnopqrstuvwxyz{|}~"

\* char.charCodeAt(0)
CharCode(c) ==
  IF IndexOfChar(AsciiLow, c) > 0 THEN IndexOfChar(AsciiLow, c) + 31
  ELSE IndexOfChar(AsciiHigh, c) + 96

RECURSIVE CharCodeSum(_)
\* searchQuery.split('').reduce((acc, char) => acc + char.charCodeAt(0), 0)
CharCodeSum(s) == IF s = "" THEN 0 ELSE CharCode(Head(s)) + CharCodeSum(Tail(s))

\* a seed that outlives the call: it advances with every lookup answered
InitialSeedShared(searchQuery) == CharCodeSum(searchQuery) + Len(lookups)

\* let seed = ...: the seed a call starts from
InitialSeed(searchQuery) == CharCodeSum(searchQuery)

\* x - Math.floor(x) for x = Math.sin(seed) * 10000, in millionths, for the
\* seeds 0, 1, 2, ... (entry seed + 1)
sinFraction ==
  <<
  0, 709848, 974268, 200080, 975046, 757253, 845018, 865987, 582466, 184852,
  788891, 97934, 270819, 670368, 73556, 878401, 966833, 25081, 127532, 772096,
  452507, 556385, 486907, 795958, 216379, 482499, 584504, 759284, 57883, 661157,
  683759, 623546, 266812, 118601, 826861, 173305, 211465, 618666, 685787, 953862,
  131604, 773311, 784520, 252573, 19251, 35245, 883476, 731227, 453386, 473472,
  251462, 291758, 275920, 251501, 109511, 448266, 489979, 647552, 726480, 380071,
  893788, 822299, 193033, 557003, 260381, 286794, 488459, 800210, 723193, 151862,
  906815, 546532, 233627, 280431, 537395, 183645, 76368, 201585, 784559, 873312,
  113460, 120057, 287824, 644611, 903200, 243800, 415529, 821633, 983027, 694058,
  966636, 875117, 339303, 178587, 480145, 617147, 877454, 77390, 181280, 931658,
  343588, 257871, 267913, 886314, 775968, 647164, 574999, 817445, 185054, 426066,
  573219, 485513, 43956, 180941, 803886, 353340, 613933, 20590, 478309, 958985,
  111842, 152247, 131538, 965093, 130131, 595408, 908256, 300672, 377105, 266079,
  940498, 966128, 835871, 657562, 248164, 686861, 667932, 855454, 477404, 801312,
  396594, 713653, 49928, 546391, 784061, 451620, 691731, 440218, 666056, 513519,
  235703, 498814, 205237, 5807, 796627, 880172, 153811, 514571, 240965, 197317,
  252583, 922144, 496492, 898241, 327780, 972794, 915637, 498131, 267112, 1323,
  494554, 908679, 591401, 894670, 380257, 654048, 522360, 897877, 753358, 221672,
  473642, 485998, 189340, 804082, 843832, 211800, 760624, 289766, 763309, 179536,
  992786, 85484, 616423, 434253, 136707, 546679, 300555, 58429, 214083, 11639,
  27027, 97492, 184068, 97001, 203593, 24922, 580968, 949724, 679301, 666417,
  185183, 521461, 529062, 293801, 994513, 456219, 584883, 183905, 754726, 852585,
  987124, 387978, 508382, 534852, 790026, 51219, 561828, 585970, 230624, 623697,
  357959, 158102, 232767, 392818, 166912, 866409, 679105, 421302, 238868, 906812,
  451549, 617132, 880924, 906511, 637006, 874367, 599996, 71855, 521192, 368065,
  719804, 61397, 122110, 237286, 988980, 83650, 919658, 428251, 356268, 931839,
  397038, 187909, 82904, 528145, 174862, 101700, 540264, 681772, 649889, 531197,
  540535, 108186, 569384, 1548, 885933, 146740, 143399, 43136, 210918, 827877,
  905791, 485636, 502354, 525197, 639681, 715902, 852411, 590518, 956292, 789797,
  456339, 142254, 259810, 990012, 900107, 180889, 612505, 690550, 376291, 232783,
  441600, 359504, 528310, 325048, 68037, 960581, 382865, 646357, 30360, 13749,
  876886, 717854, 85242, 905097, 70939, 332645, 873480, 397884, 387940, 250043,
  445719, 82654, 122598, 15338, 347805, 637265, 886657, 348053, 847343, 389491,
  183707, 88518, 956581, 788338, 721491, 329489, 474057, 928487, 108031, 255514,
  107401, 32333, 396822, 16448, 96604, 41826, 459504, 626321, 638725, 555582,
  671749, 172087, 498506, 99708, 546973, 698556, 127285, 151180, 98346, 221986,
  157234, 865543, 906756, 461398, 89803, 464039, 900726, 474803, 56089, 885229,
  350604, 321845, 57860, 673416, 929865, 424483, 608727, 814524, 364656, 655749,
  218708, 220489, 328783, 232289, 564336, 269738, 100708, 481718, 885405, 428937,
  99105, 827103, 150601, 26313, 965763, 69442, 524314, 336047, 580087, 679352,
  806403, 246804, 567906, 739577, 435911, 457653, 484527, 773216, 25310, 140476,
  545059, 252820, 81190, 237597, 852368, 393308, 255498, 603938, 145805, 621499,
  882756, 812877, 355864, 144124, 548686, 902277, 546624, 57944, 941486, 410837,
  538496, 675144, 807755, 474021, 396769, 919810, 645812, 425902, 280171, 301791,
  52932, 700129, 6615, 715718, 152156, 168436, 424628, 849530, 725721, 227616,
  162749, 176939, 201491, 65686, 56333, 396468, 473241, 701468, 349486, 509457,
  425466, 218060, 886302, 701755, 747870, 727929, 665970, 818590, 519041, 9366,
  744877, 678947, 197680, 464674, 761131, 642730, 862426, 129744, 302577, 897831,
  167137, 807186, 629288, 831767, 29667, 170215, 857761, 863110, 193265, 891657,
  613403, 516712, 43809, 229093, 982265, 663039, 567209, 193939, 436270, 953335,
  281946, 282964, 798869, 617608, 553921, 553508, 205966, 686535, 172460, 504237,
  266675, 704007, 184940, 576505, 905929, 41514, 292412, 441260, 819937, 429929,
  47206, 348266, 767042, 755532, 757972, 222694, 26482, 621285, 399997, 725475,
  165538, 176951, 957610, 391169, 79016, 706755, 408251, 515986, 983243, 221022,
  70956, 480068, 687571, 971507, 556568, 987229, 156816, 665391, 627975, 648723,
  159225, 596214, 124114, 86403, 130525, 826108, 601641, 637677, 11242, 91629,
  185852, 351572, 766604, 81620, 358904, 81257, 741133, 488258, 462319, 724629,
  484164, 631551, 109591, 345992, 962755, 712612, 472215, 640805, 766166, 386068,
  838049, 142421, 205170, 839431, 660865, 879483, 813917, 499553, 345907, 818432,
  379027, 600770, 635696, 542847, 800310, 450250, 569628, 419090, 230925, 211492,
  824483, 226081, 41352, 775062, 838861, 207546, 653171, 642100, 793349, 279914,
  176282, 92331, 324771, 364857, 13784, 823077, 104324, 12769, 283006, 525393,
  763242, 613536, 619482, 521846, 353126, 162728, 686835, 505851, 284729, 348185,
  819970, 586509, 698291, 779757, 420620, 372058, 566112, 275715, 183234, 267178,
  475018, 447037, 542147, 887617, 908865, 374123, 975880, 37384, 213001, 22076,
  532008, 155065, 345389, 894973, 24406, 565055, 390498, 194884, 625832, 155688,
  330297, 707733, 160664, 670508, 855985, 281479, 583541, 82081, 974316, 631431,
  466320, 206910, 890019, 842780, 711368, 281862, 661556, 873412, 236140, 927932,
  409219, 887835, 361779, 64606, 805528, 115081, 39335, 882788, 910229, 113410,
  793536, 823983, 270550, 809008, 455800, 663604, 8898, 876727, 237918, 904715,
  705233, 265846, 329831, 588542, 733851, 413745, 630866, 203068, 774858, 615908,
  602887, 35574, 723362, 603224, 580987, 928287, 423897, 320493, 494728, 635536,
  283035, 100620, 779578, 217448, 155976, 420383, 389478, 859206, 525642, 368171,
  698518, 226151, 884043, 474735, 472128, 80084, 974510, 583139, 477535, 210175,
  776773, 175040, 769744, 110578, 315259, 628488, 134335, 80136, 261583, 114600,
  729502, 178060, 543391, 587259, 622043, 351939, 622905, 132958, 67465, 654713,
  833233, 739181, 177637, 697873, 609541, 461624, 4383, 190062, 798314, 915185,
  319597, 666711, 599095, 151384, 496610, 947683, 885785, 488069, 988565, 750766,
  288621, 360209, 650480, 836602, 640939, 739364, 573337, 182893, 267392, 333151,
  46927, 588322, 860367, 795037, 493210, 650335, 184219, 165143, 585535, 1621
  >>

\* Math.floor(r * n) for r in millionths, without leaving the integer range
Scaled(r, n) ==
  IF n % 1000000 = 0 THEN r * (n \div 1000000)
  ELSE IF n % 10000 = 0 THEN (r * (n \div 10000)) \div 100
  ELSE (r * n) \div 1000000

\* random(min, max) at a value of the seed (the caller counts seed++)
random(seed, min, max) == min + Scaled(sinFraction[seed + 1], max - min + 1)

\* the key terms that raise the base price, with the dollars each adds
BasePrice(terms) ==
  5 + (IF Includes(terms, "rookie") \/ Includes(terms, "rc") THEN 20 ELSE 0)
    + (IF Includes(terms, "autograph") \/ Includes(terms, "auto") THEN 50 ELSE 0)
    + (IF Includes(terms, "1st") \/ Includes(terms, "first edition") THEN 30 ELSE 0)
    + (IF Includes(terms, "refractor") \/ Includes(terms, "prizm") THEN 15 ELSE 0)
    + (IF Includes(terms, "patch") \/ Includes(terms, "jersey") THEN 25 ELSE 0)
    + (IF Includes(terms, "psa") \/ Includes(terms, "bgs") THEN 40 ELSE 0)
    + (IF Includes(terms, "parallel") \/ Includes(terms, "numbered") THEN 20 ELSE 0)
    + (IF Includes(terms, "ssp") \/ Includes(terms, "rare") THEN 35 ELSE 0)

famousPlayers ==
  {"lionel messi", "cristiano ronaldo", "lebron james", "michael jordan",
   "tom brady", "patrick mahomes", "mike trout", "shohei ohtani",
   "kylian mbappe", "erling haaland"}

itemConditionTerms == <<"Mint", "NM", "NM-MT", "VG-EX", "GD">>
extraTerms == <<"Shipped in Top Loader", "w/ One Touch", "HOT!", "LOOK">>
dates == <<"May 1", "May 2", "May 3", "May 4", "May 5", "May 6", "May 7">>

\* one pass of the item loop from seed t: the item pushed and the seed after;
\* basePrice in cents, the item's price in cents (toFixed(2))
ItemAt(searchQuery, basePrice, t) ==
  LET variance == random(t, 0 - 40, 40)
      condition == itemConditionTerms[random(t + 1, 0, 4) + 1]
      hasExtra == random(t + 2, 0, 1) = 1
      extra == IF hasExtra THEN extraTerms[random(t + 3, 0, 3) + 1] ELSE ""
      u == IF hasExtra THEN t + 4 ELSE t + 3
  IN [item |-> [title |-> Trim(searchQuery \o " - " \o condition \o " " \o extra),
                price |-> (basePrice * (100 + variance) + 50) \div 100,
                date |-> dates[random(u, 0, 6) + 1],
                link |-> "https://www.ebay.com/itm/"
                           \o NumToString(random(u + 1, 100000000, 999999999)),
                imageUrl |-> "https://i.ebayimg.com/images/g/"
                               \o NumToString(random(u + 2, 10000, 99999))
                               \o "/s-l1600.jpg"],
      seed |-> u + 3]

RECURSIVE ItemsFrom(_, _, _, _)
\* for (let i = 0; i < itemCount; i++) { ... items.push(...) }
ItemsFrom(searchQuery, basePrice, t, left) ==
  IF left = 0 THEN <<>>
  ELSE LET it == ItemAt(searchQuery, basePrice, t)
       IN <<it.item>> \o ItemsFrom(searchQuery, basePrice, it.seed, left - 1)

RECURSIVE SumOf(_)
SumOf(prices) == IF prices = <<>> THEN 0 ELSE Head(prices) + SumOf(Tail(prices))

RECURSIVE Insert(_, _)
Insert(sorted, p) ==
  IF sorted = <<>> THEN <<p>>
  ELSE IF p <= Head(sorted) THEN <<p>> \o sorted
  ELSE <<Head(sorted)>> \o Insert(Tail(sorted), p)

RECURSIVE SortAscending(_)
\* [...prices].sort((a, b) => a - b)
SortAscending(prices) ==
  IF prices = <<>> THEN <<>> ELSE Insert(SortAscending(Tail(prices)), Head(prices))

\* scrapeEbayPrices(searchQuery); prices in cents, the average and the median
\* in thousandths of a cent
scrapeEbayPrices(searchQuery) ==
  LET seed == InitialSeed(searchQuery)
      terms == ToLowerCase(searchQuery)
      famous == \E player \in famousPlayers : Includes(terms, player)
      boost == IF famous THEN random(seed, 50, 200) ELSE 0
      s1 == IF famous THEN seed + 1 ELSE seed
      basePrice == (BasePrice(terms) + boost) * (100 + random(s1, 0 - 20, 20))
      itemCount == random(s1 + 1, 5, 15)
      items == ItemsFrom(searchQuery, basePrice, s1 + 2, itemCount)
      prices == [i \in 1..Len(items) |-> items[i].price]
      sortedPrices == SortAscending(prices)
      middle == Len(sortedPrices) \div 2
  IN [items |-> SubSeq(items, 1, IF Len(items) < 10 THEN Len(items) ELSE 10),
      averagePrice |-> (SumOf(prices) * 1000) \div Len(prices),
      minPrice |-> sortedPrices[1],
      maxPrice |-> sortedPrices[Len(sortedPrices)],
      medianPrice |-> IF Len(sortedPrices) % 2 = 0
                      THEN (sortedPrices[middle] + sortedPrices[middle + 1]) * 500
                      ELSE sortedPrices[middle + 1] * 1000,
      totalResults |-> Len(items),
      searchQuery |-> searchQuery]

\* GET /api/prices?query=...
GetPrices(query) ==
  /\ Len(lookups) < MaxLookups
  /\ req' = [kind |-> "prices", query |-> query]
  /\ IF ~Truthy(query) \/ query.t # "str"
     THEN /\ response' = [status |-> 400, body |-> [message |-> "Search query is required"]]
          /\ UNCHANGED lookups
     ELSE LET priceAnalysis == scrapeEbayPrices(query.s)
          IN /\ response' = [status |-> 200, body |-> priceAnalysis]
             /\ lookups' = Append(lookups, priceAnalysis)
  /\ UNCHANGED <<imports, pc, mappedColumns, cardRecords, calls, results, cards, nextId,
                 before, open, importType, trace>>

\* the query strings clients send
QueryPool == {Undef, Str(""), Str("rc"), Str("cr"), Str("bgs rc"), Str("TOM BRADY")}

PriceInit ==
  /\ req = [kind |-> "prices", query |-> Undef]
  /\ imports = 0
  /\ pc = "idle"
  /\ mappedColumns = DefaultColumnMap
  /\ cardRecords = <<>>
  /\ calls = <<>>
  /\ results = <<>>
  /\ response = NoResponse
  /\ cards = {}
  /\ nextId = 1
  /\ before = {}
  /\ SideInit

PriceNext == \E query \in QueryPool : GetPrices(query)

PriceSpec == PriceInit /\ [][PriceNext]_vars

====
